---- MODULE Spec2Model ----
(***************************************************************************)
(* State-machine model of the chick microkernel core: synchronous IPC      *)
(* endpoints (objects/endpoint.rs, objects/tcb.rs), the capability         *)
(* derivation chain and untyped retype (objects/cnode.rs,                  *)
(* objects/untyped.rs), frame / page-table bookkeeping (objects/frame.rs,  *)
(* objects/vspace.rs), guarded CSpace lookup (cspace.rs) and the per-core  *)
(* deadline executor (scheduler/executor.rs).                              *)
(*                                                                         *)
(* Each subsystem has its own specification (SpecIpc, SpecMdb, ...); the   *)
(* variables of the other subsystems stay at their constructed value.      *)
(***************************************************************************)
EXTENDS Integers, Sequences, FiniteSets, TLC

VARIABLES
    tcb,              \* objects/tcb.rs: Tcb, one record per thread control block
    ep,               \* objects/endpoint.rs: EndpointObj, one record per endpoint
    scheduler_set,    \* scheduler/mod.rs: SCHEDULER (OnceLock) has been set
    ready,            \* the per-core scheduler's ready set (wake / enqueue)
    slot,             \* objects/cnode.rs: CNodeEntry, one record per capability slot
    pt,               \* arch/x86_64/vspace: page-table memory, table -> index -> entry
    executor,         \* scheduler/executor.rs: the Executor of the current core
    once,             \* scheduler/sync.rs: one OnceLock and the calls in progress on it
    resolving,        \* cspace.rs: the position of a resolve call inside its loop
    debug_assertions, \* build profile: debug_assert! is compiled in
    panicked,         \* a panic (failed assertion) halted the kernel
    last,             \* history: the operation performed by the last step
    ops               \* history: number of budgeted operations performed so far

vars ==
    <<tcb, ep, scheduler_set, ready, slot, pt, executor, once, resolving,
      debug_assertions, panicked, last, ops>>

ipcVars == <<tcb, ep, scheduler_set, ready>>
capVars == <<slot, pt>>

\* ----------------------------------------------------------------------
\* Bounds of the model.
NumTcbs == 3
NumEps == 2
MaxIpcOps == 4

Tcbs == 1..NumTcbs
Eps == 1..NumEps

\* Option::None of the pointer-valued fields (object identities are >= 1).
NoPtr == 0

\* ----------------------------------------------------------------------
\* Trap frame and message registers.
REGISTERS_SIZE == 15
MR1 == 0
MR2 == 1
MR3 == 9
MR4 == 10
MR5 == 11
MR6 == 12

RegIdx == 0..(REGISTERS_SIZE - 1)

\* TrapFrame::registers, "in order: rax, rbx, rcx, rdx, rsi, rdi, rbp,
\* r8-r15" (the order in which restore pops them): the register saved in
\* registers[i] is RegisterOrder[i + 1].
RegisterOrder ==
    <<"rax", "rbx", "rcx", "rdx", "rsi", "rdi", "rbp", "r8", "r9", "r10",
      "r11", "r12", "r13", "r14", "r15">>
RegisterAt(idx) == RegisterOrder[idx + 1]
MessageRegs == {MR1, MR2, MR3, MR4, MR5, MR6}

\* Badges used as inputs.
Badges == {66, 7}

\* TrapFrame::new(): a zeroed register file.
ZeroRegs(t) == [i \in RegIdx |-> 0]

\* A register file loaded by user code, distinct per thread and register.
UserRegs(t) == [i \in RegIdx |-> 100 * t + i + 1]

BlockedStates ==
    {"BlockedOnSend", "BlockedOnReceive", "BlockedOnReply", "BlockedOnNotification"}

\* TrapFrame::get_mr: read of a register by index.
get_mr(regs, idx) == regs[idx]

\* TrapFrame::set_mr: debug_assert!(idx > 0 && idx < REGISTERS_SIZE), then store.
set_mr(regs, idx, mr) ==
    IF debug_assertions /\ ~(idx > 0 /\ idx < REGISTERS_SIZE)
    THEN [ok |-> FALSE, regs |-> regs]
    ELSE [ok |-> TRUE, regs |-> [regs EXCEPT ![idx] = mr]]

\* ----------------------------------------------------------------------
\* TcbQueue: intrusive doubly linked list through ep_next / ep_prev.
EmptyQueue == [head |-> NoPtr, tail |-> NoPtr]

is_empty(q) == q.head = NoPtr

\* A faulty variant of TcbQueue::append that links the thread in front of
\* the head; QueuesServeInOrder tells the two apart.
append_at_head(ts, q, t) ==
    LET t1 == [ts EXCEPT ![t].ep_prev = NoPtr, ![t].ep_next = q.head]
        t2 == IF q.head # NoPtr THEN [t1 EXCEPT ![q.head].ep_prev = t] ELSE t1
    IN [tcb |-> t2,
        q |-> [head |-> t, tail |-> IF q.head # NoPtr THEN q.tail ELSE t]]

\* TcbQueue::append
append(ts, q, t) ==
    LET t1 == [ts EXCEPT ![t].ep_next = NoPtr, ![t].ep_prev = q.tail]
        t2 == IF q.tail # NoPtr THEN [t1 EXCEPT ![q.tail].ep_next = t] ELSE t1
    IN [tcb |-> t2,
        q |-> [head |-> IF q.tail # NoPtr THEN q.head ELSE t, tail |-> t]]

\* TcbQueue::dequeue_head (called on a non-empty queue)
dequeue_head(ts, q) ==
    LET head == q.head
        nh   == ts[head].ep_next
        t1   == IF nh # NoPtr THEN [ts EXCEPT ![nh].ep_prev = NoPtr] ELSE ts
        t2   == [t1 EXCEPT ![head].ep_next = NoPtr, ![head].ep_prev = NoPtr]
    IN [tcb |-> t2,
        q |-> [head |-> nh, tail |-> IF nh # NoPtr THEN q.tail ELSE NoPtr],
        head |-> head]

\* A faulty variant of TcbQueue::remove that leaves the queue's head and tail
\* pointers alone; EndpointInvariant tells the two apart.
remove_keeps_ends(ts, q, t) ==
    LET prev == ts[t].ep_prev
        next == ts[t].ep_next
        t1   == IF prev # NoPtr THEN [ts EXCEPT ![prev].ep_next = next] ELSE ts
        t2   == IF next # NoPtr THEN [t1 EXCEPT ![next].ep_prev = prev] ELSE t1
        t3   == [t2 EXCEPT ![t].ep_next = NoPtr, ![t].ep_prev = NoPtr]
    IN [tcb |-> t3, q |-> q]

\* TcbQueue::remove
remove(ts, q, t) ==
    LET prev == ts[t].ep_prev
        next == ts[t].ep_next
        t1   == IF prev # NoPtr THEN [ts EXCEPT ![prev].ep_next = next] ELSE ts
        t2   == IF next # NoPtr THEN [t1 EXCEPT ![next].ep_prev = prev] ELSE t1
        t3   == [t2 EXCEPT ![t].ep_next = NoPtr, ![t].ep_prev = NoPtr]
    IN [tcb |-> t3,
        q |-> [head |-> IF prev # NoPtr THEN q.head ELSE next,
               tail |-> IF next # NoPtr THEN q.tail ELSE prev]]

\* The TCBs reached from the head of a queue by following ep_next, in order.
RECURSIVE WalkFrom(_, _, _)
WalkFrom(ts, t, fuel) ==
    IF t = NoPtr \/ fuel = 0 THEN <<>>
    ELSE <<t>> \o WalkFrom(ts, ts[t].ep_next, fuel - 1)

QueueSeq(e) == WalkFrom(tcb, ep[e].queue.head, NumTcbs + 1)
Range(s) == {s[i] : i \in 1..Len(s)}
Queued(e) == Range(QueueSeq(e))
InSomeQueue(t) == \E e \in Eps : t \in Queued(e)

\* ----------------------------------------------------------------------
\* The scheduler entry points used by the IPC path.
\* wake(tcb): requires a Blocked state; transitions to Ready and enqueues.
wake(ts, rdy, t) ==
    IF ts[t].state \in BlockedStates
    THEN [tcb |-> [ts EXCEPT ![t].state = "Ready"], ready |-> rdy \cup {t}]
    ELSE [tcb |-> ts, ready |-> rdy]

\* enqueue(tcb): requires state = Ready; inserts into the ready set.
enqueue(ts, rdy, t) ==
    IF ts[t].state = "Ready"
    THEN [tcb |-> ts, ready |-> rdy \cup {t}]
    ELSE [tcb |-> ts, ready |-> rdy]

\* ----------------------------------------------------------------------
\* do_ipc_transfer: badge into MR1, then registers MR1 + i, i in 0..4.
RECURSIVE CopyRegs(_, _, _, _)
CopyRegs(src, dst, i, n) ==
    IF i = n THEN [ok |-> TRUE, regs |-> dst]
    ELSE LET r == set_mr(dst, MR1 + i, get_mr(src, MR1 + i))
         IN IF r.ok THEN CopyRegs(src, r.regs, i + 1, n) ELSE r

TransferCount == 4

do_ipc_transfer(ts, sender, receiver, badge) ==
    LET r0 == set_mr(ts[receiver].regs, MR1, badge)
        r1 == IF r0.ok THEN CopyRegs(ts[sender].regs, r0.regs, 0, TransferCount)
              ELSE r0
    IN [ok |-> r1.ok, tcb |-> [ts EXCEPT ![receiver].regs = r1.regs]]

\* do_nb_recv_failed_transfer: MR1 := 0.
do_nb_recv_failed_transfer(ts, t) ==
    LET r == set_mr(ts[t].regs, MR1, 0)
    IN [ok |-> r.ok, tcb |-> [ts EXCEPT ![t].regs = r.regs]]

\* setup_caller_cap
setup_caller_cap(ts, caller, callee) ==
    [ts EXCEPT ![caller].state = "BlockedOnReply",
               ![caller].reply_to = callee,
               ![callee].caller = caller]

\* ----------------------------------------------------------------------
\* Constructed state.
NewTcb(t, regs) ==
    [regs            |-> regs,
     state           |-> "Running",
     ep_next         |-> NoPtr,
     ep_prev         |-> NoPtr,
     blocking_object |-> NoPtr,
     ipc_state       |-> [badge |-> 0, can_grant |-> FALSE,
                          can_grant_reply |-> FALSE, is_call |-> FALSE],
     reply_to        |-> NoPtr,
     caller          |-> NoPtr]

NewEndpoint == [state |-> "Idle", queue |-> EmptyQueue]

NoOp == [op |-> "none"]

IpcInit ==
    /\ tcb = [t \in Tcbs |-> NewTcb(t, ZeroRegs(t))]
    /\ ep = [e \in Eps |-> NewEndpoint]
    /\ scheduler_set = FALSE
    /\ ready = {}

\* Option<DeadlineEntry>::None
NoEntry == [deadline |-> -1, task_id |-> -1]

\* Executor::new: no task, an empty heap, no current task.  next_id is the
\* NEXT_ID counter of Task::new; polls is the stack of polls in progress on
\* the core, wakers the TaskWakers created so far.
NewExecutor ==
    [tasks |-> {}, task_queue |-> <<>>, current_task |-> NoEntry,
     next_id |-> 0, wakers |-> {}, polls |-> <<>>]

\* OnceLock state values.
UNINITIALIZED == 0
INITIALIZING == 1
INITIALIZED == 2

\* Option::None in the cell and in the result of get.
NoValue == 0

\* Callers of the OnceLock (cores) and what each one is doing.
NumCallers == 3
Callers == 1..NumCallers
IdleCall == [pc |-> "idle", value |-> NoValue]

\* OnceLock::new: once = UNINITIALIZED, value = None.  calls is the position
\* of every caller; closures, writes, set_oks and returned are history: the
\* initializers run, the writes of the cell, the calls of set that returned
\* Ok and the values returned by get and get_or_init.
NewOnceLock ==
    [once |-> UNINITIALIZED, value |-> NoValue,
     calls |-> [c \in Callers |-> IdleCall],
     closures |-> 0, writes |-> 0, set_oks |-> 0, returned |-> {}]

\* No resolve call is in progress.
NoWalk == [pc |-> "idle"]

BuildInit ==
    /\ executor = NewExecutor
    /\ once = NewOnceLock
    /\ resolving = NoWalk
    /\ debug_assertions \in BOOLEAN
    /\ panicked = FALSE
    /\ last = NoOp
    /\ ops = 0

\* No capability slot and no page table exist.
NoCaps == slot = <<>> /\ pt = <<>>

\* One more kernel operation, within the budget of the model.
Step(max) == ops < max /\ ops' = ops + 1

\* An operation of the IPC path: the kernel runs, slots and tables untouched.
IpcStep == ~panicked /\ Step(MaxIpcOps) /\ UNCHANGED <<capVars, executor, once, resolving>>

\* A thread issues an IPC operation only while it is not blocked and not
\* queued on an endpoint (TcbQueue::append: "not already in a queue").
CanIssue(t) == ~InSomeQueue(t) /\ tcb[t].state \notin BlockedStates

\* init_scheduler: SCHEDULER.set(PerCore::new(cores)).
init_scheduler ==
    /\ IpcStep
    /\ ~scheduler_set
    /\ scheduler_set' = TRUE
    /\ last' = [op |-> "init_scheduler"]
    /\ UNCHANGED <<tcb, ep, ready, debug_assertions, panicked>>

Panic(ts, es, what) ==
    /\ tcb' = ts
    /\ ep' = es
    /\ panicked' = TRUE
    /\ last' = [op |-> "panic", in |-> what]
    /\ UNCHANGED <<scheduler_set, ready, debug_assertions>>

\* send_ipc
send_ipc(blocking, do_call, badge, can_grant, can_grant_reply, sender, e) ==
    /\ IpcStep
    /\ CanIssue(sender)
    /\ IF ep[e].state \in {"Idle", "Send"}
       THEN IF blocking
            THEN LET t1 == [tcb EXCEPT
                             ![sender].ipc_state =
                                 [badge |-> badge, can_grant |-> can_grant,
                                  can_grant_reply |-> can_grant_reply,
                                  is_call |-> do_call],
                             ![sender].state = "BlockedOnSend",
                             ![sender].blocking_object = e]
                     a  == append(t1, ep[e].queue, sender)
                 IN /\ tcb' = a.tcb
                    /\ ep' = [ep EXCEPT ![e] = [state |-> "Send", queue |-> a.q]]
                    /\ last' = [op |-> "send_blocked", tcb |-> sender, ep |-> e]
                    /\ UNCHANGED <<scheduler_set, ready, debug_assertions, panicked>>
            ELSE /\ last' = [op |-> "send_dropped", tcb |-> sender, ep |-> e]
                 /\ UNCHANGED <<tcb, ep, scheduler_set, ready, debug_assertions,
                                panicked>>
       ELSE LET d        == dequeue_head(tcb, ep[e].queue)
                receiver == d.head
                es       == [ep EXCEPT ![e] =
                               [state |-> IF is_empty(d.q) THEN "Idle" ELSE ep[e].state,
                                queue |-> d.q]]
                x        == do_ipc_transfer(d.tcb, sender, receiver, badge)
                t2       == IF do_call
                            THEN IF can_grant \/ can_grant_reply
                                 THEN setup_caller_cap(x.tcb, sender, receiver)
                                 ELSE [x.tcb EXCEPT ![sender].state = "Inactive"]
                            ELSE x.tcb
                t3       == [t2 EXCEPT ![receiver].state = "Running"]
                w        == IF scheduler_set
                            THEN wake([t3 EXCEPT ![receiver].state = "Inactive"],
                                      ready, receiver)
                            ELSE [tcb |-> t3, ready |-> ready]
            IN IF ~x.ok
               THEN Panic(x.tcb, es, "send_ipc")
               ELSE /\ tcb' = w.tcb
                    /\ ready' = w.ready
                    /\ ep' = es
                    /\ last' = [op |-> "send_rendezvous", tcb |-> sender, ep |-> e,
                                sender |-> sender, receiver |-> receiver,
                                badge |-> badge]
                    /\ UNCHANGED <<scheduler_set, debug_assertions, panicked>>

\* receive_ipc
receive_ipc(receiver, e, is_blocking) ==
    /\ IpcStep
    /\ CanIssue(receiver)
    /\ IF ep[e].state \in {"Idle", "Recv"}
       THEN IF is_blocking
            THEN LET t1 == [tcb EXCEPT ![receiver].state = "BlockedOnReceive",
                                       ![receiver].blocking_object = e]
                     a  == append(t1, ep[e].queue, receiver)
                 IN /\ tcb' = a.tcb
                    /\ ep' = [ep EXCEPT ![e] = [state |-> "Recv", queue |-> a.q]]
                    /\ last' = [op |-> "recv_blocked", tcb |-> receiver, ep |-> e]
                    /\ UNCHANGED <<scheduler_set, ready, debug_assertions, panicked>>
            ELSE LET x == do_nb_recv_failed_transfer(tcb, receiver)
                 IN IF ~x.ok
                    THEN Panic(x.tcb, ep, "receive_ipc")
                    ELSE /\ tcb' = x.tcb
                         /\ last' = [op |-> "recv_failed", tcb |-> receiver, ep |-> e]
                         /\ UNCHANGED <<ep, scheduler_set, ready, debug_assertions,
                                        panicked>>
       ELSE LET d      == dequeue_head(tcb, ep[e].queue)
                sender == d.head
                es     == [ep EXCEPT ![e] =
                             [state |-> IF is_empty(d.q) THEN "Idle" ELSE ep[e].state,
                              queue |-> d.q]]
                ipc    == d.tcb[sender].ipc_state
                x      == do_ipc_transfer(d.tcb, sender, receiver, ipc.badge)
                w      == IF ipc.is_call
                          THEN [tcb |-> IF ipc.can_grant \/ ipc.can_grant_reply
                                        THEN setup_caller_cap(x.tcb, sender, receiver)
                                        ELSE [x.tcb EXCEPT ![sender].state = "Inactive"],
                                ready |-> ready]
                          ELSE IF scheduler_set
                               THEN wake([x.tcb EXCEPT ![sender].state = "Inactive"],
                                         ready, sender)
                               ELSE [tcb |-> [x.tcb EXCEPT ![sender].state = "Inactive"],
                                     ready |-> ready]
            IN IF ~x.ok
               THEN Panic(x.tcb, es, "receive_ipc")
               ELSE /\ tcb' = w.tcb
                    /\ ready' = w.ready
                    /\ ep' = es
                    /\ last' = [op |-> "recv_rendezvous", tcb |-> receiver, ep |-> e,
                                sender |-> sender, receiver |-> receiver,
                                badge |-> ipc.badge]
                    /\ UNCHANGED <<scheduler_set, debug_assertions, panicked>>

\* cancel_ipc
cancel_ipc(t) ==
    /\ IpcStep
    /\ LET state == tcb[t].state
       IN CASE state \in {"BlockedOnSend", "BlockedOnReceive"} ->
                 LET e  == tcb[t].blocking_object
                     r  == IF e # NoPtr THEN remove(tcb, ep[e].queue, t)
                           ELSE [tcb |-> tcb, q |-> EmptyQueue]
                 IN /\ ep' = IF e # NoPtr
                             THEN [ep EXCEPT ![e] =
                                     [state |-> IF is_empty(r.q) THEN "Idle"
                                                ELSE ep[e].state,
                                      queue |-> r.q]]
                             ELSE ep
                    /\ tcb' = [r.tcb EXCEPT ![t].state = "Inactive",
                                            ![t].blocking_object = NoPtr]
            [] state = "BlockedOnNotification" ->
                 /\ tcb' = [tcb EXCEPT ![t].state = "Inactive"]
                 /\ ep' = ep
            [] state = "BlockedOnReply" ->
                 LET callee == tcb[t].reply_to
                     t1 == IF callee # NoPtr THEN [tcb EXCEPT ![callee].caller = NoPtr]
                           ELSE tcb
                 IN /\ tcb' = [t1 EXCEPT ![t].reply_to = NoPtr, ![t].state = "Inactive"]
                    /\ ep' = ep
            [] OTHER -> UNCHANGED <<tcb, ep>>
    /\ last' = [op |-> "cancel_ipc", tcb |-> t, was |-> tcb[t].state]
    /\ UNCHANGED <<scheduler_set, ready, debug_assertions, panicked>>

\* cancel_all_ipc: the loop restarts every queued thread, head first.
RECURSIVE RestartAll(_, _, _)
RestartAll(ts, rdy, q) ==
    IF is_empty(q) THEN [tcb |-> ts, ready |-> rdy]
    ELSE LET d  == dequeue_head(ts, q)
             t  == d.head
             t1 == [d.tcb EXCEPT ![t].state = "Restart",
                                 ![t].blocking_object = NoPtr]
             w  == IF scheduler_set
                   THEN enqueue([t1 EXCEPT ![t].state = "Inactive"], rdy, t)
                   ELSE [tcb |-> t1, ready |-> rdy]
         IN RestartAll(w.tcb, w.ready, d.q)

cancel_all_ipc(e) ==
    /\ IpcStep
    /\ IF ep[e].state = "Idle"
       THEN UNCHANGED <<tcb, ep, ready>>
       ELSE LET r == RestartAll(tcb, ready, ep[e].queue)
            IN /\ tcb' = r.tcb
               /\ ready' = r.ready
               /\ ep' = [ep EXCEPT ![e] = NewEndpoint]
    /\ last' = [op |-> "cancel_all_ipc", ep |-> e, queued |-> QueueSeq(e)]
    /\ UNCHANGED <<scheduler_set, debug_assertions, panicked>>

\* A faulty variant of the loop of cancel_badged_sends that puts each kept
\* thread in front of the new queue; BadgedCancelRemovesExactlyBadge tells
\* the two apart.
RECURSIVE FilterBadgeReversing(_, _, _, _, _)
FilterBadgeReversing(ts, rdy, current, new_queue, badge) ==
    IF current = NoPtr THEN [tcb |-> ts, ready |-> rdy, q |-> new_queue]
    ELSE LET next == ts[current].ep_next
         IN IF ts[current].ipc_state.badge = badge
            THEN LET t1 == [ts EXCEPT ![current].ep_next = NoPtr,
                                      ![current].ep_prev = NoPtr,
                                      ![current].state = "Restart",
                                      ![current].blocking_object = NoPtr]
                     w  == IF scheduler_set
                           THEN enqueue([t1 EXCEPT ![current].state = "Inactive"],
                                        rdy, current)
                           ELSE [tcb |-> t1, ready |-> rdy]
                 IN FilterBadgeReversing(w.tcb, w.ready, next, new_queue, badge)
            ELSE LET a == append_at_head(ts, new_queue, current)
                 IN FilterBadgeReversing(a.tcb, rdy, next, a.q, badge)

\* cancel_badged_sends: rebuild the queue from the threads with another badge.
RECURSIVE FilterBadge(_, _, _, _, _)
FilterBadge(ts, rdy, current, new_queue, badge) ==
    IF current = NoPtr THEN [tcb |-> ts, ready |-> rdy, q |-> new_queue]
    ELSE LET next == ts[current].ep_next
         IN IF ts[current].ipc_state.badge = badge
            THEN LET t1 == [ts EXCEPT ![current].ep_next = NoPtr,
                                      ![current].ep_prev = NoPtr,
                                      ![current].state = "Restart",
                                      ![current].blocking_object = NoPtr]
                     w  == IF scheduler_set
                           THEN enqueue([t1 EXCEPT ![current].state = "Inactive"],
                                        rdy, current)
                           ELSE [tcb |-> t1, ready |-> rdy]
                 IN FilterBadge(w.tcb, w.ready, next, new_queue, badge)
            ELSE LET a == append(ts, new_queue, current)
                 IN FilterBadge(a.tcb, rdy, next, a.q, badge)

cancel_badged_sends(e, badge) ==
    /\ IpcStep
    /\ IF ep[e].state # "Send"
       THEN UNCHANGED <<tcb, ep, ready>>
       ELSE LET r == FilterBadge(tcb, ready, ep[e].queue.head, EmptyQueue, badge)
            IN /\ tcb' = r.tcb
               /\ ready' = r.ready
               /\ ep' = [ep EXCEPT ![e] =
                           [state |-> IF is_empty(r.q) THEN "Idle" ELSE ep[e].state,
                            queue |-> r.q]]
    /\ last' = [op |-> "cancel_badged_sends", ep |-> e, badge |-> badge,
                queued |-> QueueSeq(e)]
    /\ UNCHANGED <<scheduler_set, debug_assertions, panicked>>

\* Arguments of send_ipc exercised by the model:
\* <<blocking, do_call, badge, can_grant, can_grant_reply>>.
SendArgs ==
    {<<TRUE, FALSE, 66, FALSE, FALSE>>,
     <<TRUE, FALSE, 7, FALSE, FALSE>>,
     <<FALSE, FALSE, 66, FALSE, FALSE>>,
     <<TRUE, TRUE, 66, FALSE, TRUE>>,
     <<TRUE, TRUE, 7, TRUE, FALSE>>,
     <<TRUE, TRUE, 66, FALSE, FALSE>>}

NextIpc ==
    \/ init_scheduler
    \/ \E s \in Tcbs, e \in Eps, a \in SendArgs :
          send_ipc(a[1], a[2], a[3], a[4], a[5], s, e)
    \/ \E r \in Tcbs, e \in Eps, is_blocking \in BOOLEAN :
          receive_ipc(r, e, is_blocking)
    \/ \E t \in Tcbs : cancel_ipc(t)
    \/ \E e \in Eps : cancel_all_ipc(e)
    \/ \E e \in Eps, badge \in Badges : cancel_badged_sends(e, badge)

Init == IpcInit /\ NoCaps /\ BuildInit

SpecIpc == Init /\ [][NextIpc]_vars

\* ----------------------------------------------------------------------
\* C1: after any sequence of send, receive and cancel operations issued for
\* threads that are not already queued, every endpoint is Idle exactly when
\* its queue is empty, a Send endpoint queues only BlockedOnSend threads, a
\* Recv endpoint queues only BlockedOnReceive threads, and every queued
\* thread's blocking_object is the endpoint it is queued on.
EndpointInvariant ==
    \A e \in Eps :
        /\ (ep[e].state = "Idle") <=> is_empty(ep[e].queue)
        /\ ep[e].state = "Send" =>
               \A t \in Queued(e) : tcb[t].state = "BlockedOnSend"
        /\ ep[e].state = "Recv" =>
               \A t \in Queued(e) : tcb[t].state = "BlockedOnReceive"
        /\ \A t \in Queued(e) : tcb[t].blocking_object = e

\* Three senders queued on one endpoint, then the first of them cancelled:
\* the endpoint stays in Send with the two others.
EndpointInvariantWitness ==
    /\ last.op = "cancel_ipc"
    /\ last.was = "BlockedOnSend"
    /\ \E e \in Eps :
          /\ ep[e].state = "Send"
          /\ Len(QueueSeq(e)) = 2
          /\ tcb[last.tcb].ep_next = NoPtr
          /\ last.tcb \notin Queued(e)
          /\ \A t \in Queued(e) : t > last.tcb

\* ----------------------------------------------------------------------
\* C9: a blocking receive_ipc by B on an Idle endpoint E makes B
\* BlockedOnReceive, queues B and sets E to Recv; a following send_ipc by A on
\* E (one that completes) dequeues B, returns E to Idle with an empty queue
\* and leaves B Running, never Inactive or still blocked.
ReceiveThenSendRunsReceiver ==
    [][\A B \in Tcbs, e \in Eps :
         /\ (ep[e].state = "Idle" /\ receive_ipc(B, e, TRUE)) =>
               /\ tcb'[B].state = "BlockedOnReceive"
               /\ QueueSeq(e)' = <<B>>
               /\ ep'[e].state = "Recv"
         /\ (/\ ep[e].state = "Recv"
             /\ QueueSeq(e) = <<B>>
             /\ last.op = "recv_blocked" /\ last.tcb = B /\ last.ep = e
             /\ \E A \in Tcbs, a \in SendArgs :
                   send_ipc(a[1], a[2], a[3], a[4], a[5], A, e)
             /\ ~panicked') =>
               /\ ep'[e].state = "Idle"
               /\ is_empty(ep'[e].queue)
               /\ B \notin Queued(e)'
               /\ tcb'[B].state = "Running"
      ]_vars

\* ----------------------------------------------------------------------
\* The IPC path on threads whose registers hold values loaded by user code.
IpcRegsInit ==
    /\ tcb = [t \in Tcbs |-> NewTcb(t, UserRegs(t))]
    /\ ep = [e \in Eps |-> NewEndpoint]
    /\ scheduler_set = FALSE
    /\ ready = {}

InitIpcRegs == IpcRegsInit /\ NoCaps /\ BuildInit

SpecIpcRegs == InitIpcRegs /\ [][NextIpc]_vars

\* The registers MR2..MR4 that a transfer carries besides the badge.
TransferredMRs == {MR2, MR3, MR4}

\* C10: whenever a message is transferred (a sender meets a queued receiver,
\* or a receiver meets a queued sender), the receiver's MR1 afterwards equals
\* the badge of that send (the staged badge for a queued sender), the
\* receiver's other transferred message registers equal the sender's message
\* registers of the same index, and no register of the receiver outside the
\* message registers is changed.
TransferCopiesMessageRegisters ==
    [][last'.op \in {"send_rendezvous", "recv_rendezvous"} =>
         LET S == last'.sender
             R == last'.receiver
         IN /\ tcb'[R].regs[MR1] = last'.badge
            /\ \A i \in TransferredMRs : tcb'[R].regs[i] = tcb[S].regs[i]
            /\ \A i \in RegIdx \ MessageRegs : tcb'[R].regs[i] = tcb[R].regs[i]
      ]_vars

\* ----------------------------------------------------------------------
\* C24: given the trap frame's register order, the message register indices
\* MR1..MR6 address the trap-frame slots that hold RDI, RSI, R10, R8, R9 and
\* R15, and set_mr accepts each of the six indices on every thread's trap
\* frame.
MessageRegistersAreArgumentRegisters ==
    /\ <<RegisterAt(MR1), RegisterAt(MR2), RegisterAt(MR3), RegisterAt(MR4),
         RegisterAt(MR5), RegisterAt(MR6)>>
          = <<"rdi", "rsi", "r10", "r8", "r9", "r15">>
    /\ \A t \in Tcbs, mr \in MessageRegs : set_mr(tcb[t].regs, mr, 0).ok

\* ----------------------------------------------------------------------
\* The outcome of a call by sender S that met receiver R, by whether S
\* granted reply rights.
CallOutcome(S, R, granted_reply) ==
    IF granted_reply
    THEN /\ tcb'[S].state = "BlockedOnReply"
         /\ tcb'[S].reply_to = R
         /\ tcb'[R].caller = S
    ELSE /\ tcb'[S].state = "Inactive"
         /\ tcb'[S].reply_to = tcb[S].reply_to
         /\ tcb'[R].caller = tcb[R].caller

\* C11: when a send with do_call meets a receiver, in either arrival order,
\* the reply relationship is installed exactly when the caller granted reply
\* rights (can_grant_reply): the caller becomes BlockedOnReply with reply_to =
\* receiver and the receiver's caller = sender; without reply rights no link
\* is installed and the sender becomes Inactive.
CallInstallsReplyLink ==
    [][\A e \in Eps :
         /\ \A S \in Tcbs, a \in SendArgs :
               (/\ ep[e].state = "Recv"
                /\ a[2]
                /\ send_ipc(a[1], a[2], a[3], a[4], a[5], S, e))
               => CallOutcome(S, ep[e].queue.head, a[5])
         /\ \A R \in Tcbs, is_blocking \in BOOLEAN :
               (/\ ep[e].state = "Send"
                /\ tcb[ep[e].queue.head].ipc_state.is_call
                /\ receive_ipc(R, e, is_blocking))
               => CallOutcome(ep[e].queue.head, R,
                              tcb[ep[e].queue.head].ipc_state.can_grant_reply)
      ]_vars

\* ----------------------------------------------------------------------
\* The position of a queued thread, counted from the head.
Pos(q, t) == CHOOSE i \in 1..Len(q) : q[i] = t

\* C16: threads blocked on an endpoint are served in the order they
\* blocked.  In every step and for every endpoint: two threads that are
\* queued before and after the step keep their relative order (whatever
\* cancel_ipc, cancel_all_ipc or cancel_badged_sends removed), a thread
\* that blocks is put behind all queued threads, and a rendezvous takes
\* the head of the queue and nothing else.
QueuesServeInOrder ==
    [][\A e \in Eps :
         LET q  == QueueSeq(e)
             q2 == QueueSeq(e)'
         IN /\ \A S1 \in Range(q) \cap Range(q2), S2 \in Range(q) \cap Range(q2) :
                  Pos(q, S1) < Pos(q, S2) => Pos(q2, S1) < Pos(q2, S2)
            /\ \A t \in Range(q2) \ Range(q) : q2 = Append(q, t)
            /\ (last'.op \in {"send_rendezvous", "recv_rendezvous"} /\ last'.ep = e)
                  => /\ q # <<>>
                     /\ q2 = Tail(q)
                     /\ Head(q) = IF last'.op = "send_rendezvous"
                                  THEN last'.receiver ELSE last'.sender
            /\ last'.op \notin {"cancel_ipc", "cancel_all_ipc", "cancel_badged_sends"}
                  => \/ q2 = q
                     \/ q # <<>> /\ q2 = Tail(q)
                     \/ \E t \in Tcbs : q2 = Append(q, t)
      ]_vars

\* Threads 2 and 3 blocked sending on endpoint 1 in that order; thread 1
\* has just received from thread 2 and thread 3 is now at the head.
QueuesServeInOrderWitness ==
    /\ last.op = "recv_rendezvous" /\ last.ep = 1
    /\ last.sender = 2 /\ last.receiver = 1
    /\ ep[1].state = "Send"
    /\ QueueSeq(1) = <<3>>

\* ----------------------------------------------------------------------
\* C17: cancel_ipc on a thread in a blocked state leaves the thread in no
\* endpoint queue, with blocking_object = None and with reply_to and
\* caller both cleared, and leaves the endpoint it was queued on Idle
\* exactly when that queue became empty.
CancelIpcClearsThread ==
    [][\A t \in Tcbs :
         (tcb[t].state \in BlockedStates /\ cancel_ipc(t))
         => /\ ~InSomeQueue(t)'
            /\ tcb'[t].blocking_object = NoPtr
            /\ tcb'[t].reply_to = NoPtr
            /\ tcb'[t].caller = NoPtr
            /\ \A e \in Eps :
                  t \in Queued(e)
                  => (ep'[e].state = "Idle" <=> is_empty(ep'[e].queue))
      ]_vars

\* ----------------------------------------------------------------------
\* C18: cancel_all_ipc(ep) empties ep's queue and sets ep to Idle; every
\* thread that was queued ends with state Restart and blocking_object =
\* None and, once the scheduler exists, is in the scheduler's ready set.
CancelAllRestartsQueued ==
    [][\A e \in Eps :
         cancel_all_ipc(e)
         => /\ ep'[e].state = "Idle"
            /\ is_empty(ep'[e].queue)
            /\ \A t \in Queued(e) :
                  /\ tcb'[t].state = "Restart"
                  /\ tcb'[t].blocking_object = NoPtr
                  /\ scheduler_set => t \in ready'
      ]_vars

\* ----------------------------------------------------------------------
\* C28: in every reachable state the reply links mirror each other: for all
\* TCBs a and b, a.reply_to = b iff b.caller = a (also when a callee
\* receives a second call before replying to the first, and after
\* cancel_ipc on one of several callers of the same callee).
ReplyLinksMirror ==
    \A a \in Tcbs, b \in Tcbs : (tcb[a].reply_to = b) <=> (tcb[b].caller = a)


\* C35: a thread that blocked in a non-call send_ipc becomes runnable again
\* once a receiver takes its message: after receive_ipc dequeues it (with
\* an initialized scheduler whose wake requires a Blocked state), the sender
\* is Ready and in the scheduler's ready set.
DequeuedSenderIsReady ==
    (/\ last.op = "recv_rendezvous"
     /\ scheduler_set
     /\ ~tcb[last.sender].ipc_state.is_call)
    => /\ tcb[last.sender].state = "Ready"
       /\ last.sender \in ready


\* C36: in every reachable state a TCB has blocking_object = E exactly when
\* it is in E's queue: a sender or receiver that a rendezvous dequeues from
\* E no longer has blocking_object pointing at E afterwards.
BlockingObjectMirrorsQueue ==
    \A t \in Tcbs, e \in Eps : (tcb[t].blocking_object = e) <=> (t \in Queued(e))


\* C37: cancel_badged_sends(ep, badge) on an endpoint in state Send removes
\* from the queue exactly the senders whose staged badge equals badge
\* (clearing their blocking_object and queue links), keeps every other
\* sender queued, still BlockedOnSend and in the original relative order,
\* and leaves ep Idle iff no sender remains; on an endpoint in state Idle or
\* Recv it changes nothing.
BadgedCancelRemovesExactlyBadge ==
    [][\A e \in Eps, badge \in Badges :
         cancel_badged_sends(e, badge)
         => LET before == QueueSeq(e)
                after  == WalkFrom(tcb', ep'[e].queue.head, NumTcbs + 1)
                kept   == SelectSeq(before,
                             LAMBDA t : tcb[t].ipc_state.badge # badge)
            IN IF ep[e].state = "Send"
               THEN /\ after = kept
                    /\ \A t \in Range(before) \ Range(kept) :
                          /\ tcb'[t].blocking_object = NoPtr
                          /\ tcb'[t].ep_next = NoPtr
                          /\ tcb'[t].ep_prev = NoPtr
                    /\ \A t \in Range(kept) :
                          /\ tcb'[t].state = "BlockedOnSend"
                          /\ tcb'[t].blocking_object = e
                    /\ (ep'[e].state = "Idle") <=> (kept = <<>>)
                    /\ kept # <<>> => ep'[e].state = "Send"
                    /\ \A o \in Eps \ {e} : ep'[o] = ep[o]
               ELSE tcb' = tcb /\ ep' = ep /\ ready' = ready
      ]_vars

\* Three senders were queued and the one in the middle, alone with its
\* badge, has just been cancelled.
BadgedCancelWitness ==
    /\ last.op = "cancel_badged_sends"
    /\ Len(last.queued) = 3
    /\ QueueSeq(last.ep) = <<last.queued[1], last.queued[3]>>
    /\ tcb[last.queued[2]].ipc_state.badge = last.badge

\* ======================================================================
\* Capability slots and the derivation chain (MDB).
NumSlots == 4
Slots == 1..NumSlots

\* CapRights bits.
RightsNONE == 0
RightsREAD == 1
RightsWRITE == 2
RightsCONTROL == 16

\* CNodeEntry::new / CapRaw::default: the null capability, no MDB links.
NullCap ==
    [cap_type |-> "NullObj", rights |-> RightsNONE, paddr |-> 0, arg1 |-> 0,
     arg2 |-> 0, mdb_prev |-> NoPtr, mdb_next |-> NoPtr]

\* CapRaw::default_with_type
default_with_type(cap_type) == [NullCap EXCEPT !.cap_type = cap_type]

Pow2(n) == 2 ^ n

\* UntypedCap::mint: arg1 = is_device, arg2 = bit_sz & mask!(6).
UntypedMint(paddr, bit_sz, is_device) ==
    [default_with_type("Untyped") EXCEPT
        !.paddr = paddr,
        !.arg1 = IF is_device THEN 1 ELSE 0,
        !.arg2 = bit_sz % Pow2(6),
        !.rights = RightsCONTROL]

\* CNodeEntry::is_null
is_null(ss, s) == ss[s].cap_type = "NullObj"

\* CNodeEntry::mdb_isolated
mdb_isolated(ss, s) == ss[s].mdb_prev = NoPtr /\ ss[s].mdb_next = NoPtr

\* A faulty variant of mdb_insert_after that does not repair the back link of
\* the node that followed src; MdbWellFormed tells the two apart.
mdb_insert_after_no_backlink(ss, src, dst) ==
    LET src_raw   == ss[src]
        orig_next == src_raw.mdb_next
        s1 == [ss EXCEPT ![dst].mdb_prev = src, ![dst].mdb_next = orig_next]
    IN [s1 EXCEPT ![src] = [src_raw EXCEPT !.mdb_next = dst]]

\* CNodeEntry::mdb_insert_after(src, dst): each get() copies the entry and
\* each set() stores the copy back.
mdb_insert_after(ss, src, dst) ==
    LET src_raw   == ss[src]
        orig_next == src_raw.mdb_next
        s1 == [ss EXCEPT ![dst].mdb_prev = src, ![dst].mdb_next = orig_next]
        s2 == IF orig_next # NoPtr THEN [s1 EXCEPT ![orig_next].mdb_prev = dst]
              ELSE s1
    IN [s2 EXCEPT ![src] = [src_raw EXCEPT !.mdb_next = dst]]

\* CNodeEntry::mdb_remove
mdb_remove(ss, self) ==
    LET self_raw == ss[self]
        prev == self_raw.mdb_prev
        next == self_raw.mdb_next
        s1 == IF prev # NoPtr THEN [ss EXCEPT ![prev].mdb_next = next] ELSE ss
        s2 == IF next # NoPtr THEN [s1 EXCEPT ![next].mdb_prev = prev] ELSE s1
    IN [s2 EXCEPT ![self] = [self_raw EXCEPT !.mdb_prev = NoPtr,
                                            !.mdb_next = NoPtr]]

\* A faulty variant of the loop of revoke that erases the capability but
\* leaves its paddr; RevokeNullifiesDescendants tells the two apart.
RECURSIVE RevokeLoopKeepsPaddr(_, _, _)
RevokeLoopKeepsPaddr(ss, cur, fuel) ==
    IF cur = NoPtr \/ fuel = 0 THEN ss
    ELSE LET raw == ss[cur]
             s1  == [ss EXCEPT ![cur] =
                       [raw EXCEPT !.cap_type = "NullObj", !.rights = RightsNONE,
                                   !.arg1 = 0, !.arg2 = 0]]
         IN RevokeLoopKeepsPaddr(mdb_remove(s1, cur), raw.mdb_next, fuel - 1)

\* A faulty variant of the loop of revoke that stops after the first
\* descendant; RevokeIdempotent tells the two apart.
RevokeLoopOnce(ss, cur, fuel) ==
    IF cur = NoPtr \/ fuel = 0 THEN ss
    ELSE mdb_remove([ss EXCEPT ![cur] =
                       [ss[cur] EXCEPT !.cap_type = "NullObj", !.rights = RightsNONE,
                                       !.paddr = 0, !.arg1 = 0, !.arg2 = 0]], cur)

\* CNodeEntry::revoke, the loop: while let Some(ptr) = cur { erase; remove }.
RECURSIVE RevokeLoop(_, _, _)
RevokeLoop(ss, cur, fuel) ==
    IF cur = NoPtr \/ fuel = 0 THEN ss
    ELSE LET raw == ss[cur]
             s1  == [ss EXCEPT ![cur] =
                       [raw EXCEPT !.cap_type = "NullObj", !.rights = RightsNONE,
                                   !.paddr = 0, !.arg1 = 0, !.arg2 = 0]]
         IN RevokeLoop(mdb_remove(s1, cur), raw.mdb_next, fuel - 1)

\* CNodeEntry::revoke
revoke(ss, self) == RevokeLoop(ss, ss[self].mdb_next, Cardinality(DOMAIN ss) + 1)

\* The slots reached from s by following mdb_next, in order (s excluded).
RECURSIVE MdbWalk(_, _, _)
MdbWalk(ss, cur, fuel) ==
    IF cur = NoPtr \/ fuel = 0 THEN <<>>
    ELSE <<cur>> \o MdbWalk(ss, ss[cur].mdb_next, fuel - 1)

Descendants(ss, s) == MdbWalk(ss, ss[s].mdb_next, Cardinality(DOMAIN ss) + 1)

\* A capability operation: the kernel runs, threads and endpoints untouched.
CapStep ==
    ~panicked /\ UNCHANGED <<ipcVars, executor, once, resolving, debug_assertions, ops>>

\* mdb_insert_after(parent, child), called with child isolated and distinct
\* from parent (its requires clause).
call_mdb_insert_after(parent, child) ==
    /\ CapStep
    /\ child # parent
    /\ mdb_isolated(slot, child)
    /\ slot' = mdb_insert_after(slot, parent, child)
    /\ last' = [op |-> "mdb_insert_after", parent |-> parent, child |-> child]
    /\ UNCHANGED <<pt, panicked>>

call_mdb_remove(s) ==
    /\ CapStep
    /\ slot' = mdb_remove(slot, s)
    /\ last' = [op |-> "mdb_remove", slot |-> s, prev |-> slot[s].mdb_prev,
                next |-> slot[s].mdb_next]
    /\ UNCHANGED <<pt, panicked>>

call_revoke(s) ==
    /\ CapStep
    /\ slot' = revoke(slot, s)
    /\ last' = [op |-> "revoke", slot |-> s, descendants |-> Descendants(slot, s)]
    /\ UNCHANGED <<pt, panicked>>

\* Slots holding untyped capabilities over disjoint regions, none derived yet.
MdbInit ==
    /\ slot = [s \in Slots |-> UntypedMint(s * Pow2(16), 16, FALSE)]
    /\ pt = <<>>

InitMdb == IpcInit /\ MdbInit /\ BuildInit

NextMdb ==
    \/ \E p \in Slots, c \in Slots : call_mdb_insert_after(p, c)
    \/ \E s \in Slots : call_mdb_remove(s)
    \/ \E s \in Slots : call_revoke(s)

SpecMdb == InitMdb /\ [][NextMdb]_vars

\* ----------------------------------------------------------------------
\* Following mdb_next from s reaches None within fuel steps.
RECURSIVE ReachesNone(_, _, _)
ReachesNone(ss, s, fuel) ==
    IF s = NoPtr THEN TRUE
    ELSE IF fuel = 0 THEN FALSE
    ELSE ReachesNone(ss, ss[s].mdb_next, fuel - 1)

\* C2: after any sequence of mdb_insert_after(parent, child) (child isolated
\* and distinct from parent), mdb_remove and revoke, the derivation chain is
\* a well-formed doubly linked list: a.mdb_next = b iff b.mdb_prev = a for
\* all slots a and b, and following mdb_next from any slot reaches None in at
\* most total-slots steps (no cycle).
MdbWellFormed ==
    /\ \A a \in Slots, b \in Slots :
          (slot[a].mdb_next = b) <=> (slot[b].mdb_prev = a)
    /\ \A s \in Slots : ReachesNone(slot, s, NumSlots)

\* A node with both neighbours was removed from a chain and its neighbours
\* are linked to each other.
MdbWellFormedWitness ==
    /\ last.op = "mdb_remove"
    /\ last.prev # NoPtr
    /\ last.next # NoPtr
    /\ slot[last.prev].mdb_next = last.next
    /\ slot[last.next].mdb_prev = last.prev
    /\ mdb_isolated(slot, last.slot)

\* C3: revoke(node) leaves every descendant of node (every slot that was
\* reachable from node through mdb_next) nullified (type Null, rights NONE,
\* paddr = arg1 = arg2 = 0) and unlinked (mdb_prev = mdb_next = None), leaves
\* node.mdb_next = None, and does not change node's own type, rights, paddr,
\* args or mdb_prev.
RevokeNullifiesDescendants ==
    [][\A n \in Slots :
         call_revoke(n) =>
            /\ \A i \in 1..Len(Descendants(slot, n)) :
                  slot'[Descendants(slot, n)[i]] = NullCap
            /\ slot'[n] = [slot[n] EXCEPT !.mdb_next = NoPtr]
      ]_vars

\* A revoke on a node that has a predecessor and at least two descendants.
RevokeNullifiesDescendantsWitness ==
    /\ last.op = "revoke"
    /\ Len(last.descendants) >= 2
    /\ slot[last.slot].mdb_prev # NoPtr
    /\ slot[last.slot].mdb_next = NoPtr
    /\ ~is_null(slot, last.slot)
    /\ \A i \in 1..Len(last.descendants) : slot[last.descendants[i]] = NullCap

\* C21: revoke is idempotent: for any chain and any node, the state of all
\* slots after revoke(node); revoke(node) equals the state after a single
\* revoke(node).
RevokeIdempotent ==
    \A n \in Slots : revoke(revoke(slot, n), n) = revoke(slot, n)

\* A node with two descendants: the first revoke changes the slots and the
\* second finds nothing left to revoke.
RevokeIdempotentWitness ==
    \E n \in Slots :
        /\ Len(Descendants(slot, n)) >= 2
        /\ revoke(slot, n) # slot
        /\ Descendants(revoke(slot, n), n) = <<>>

\* The capability held by a slot, without its chain links.
CapOf(ss, s) == [ss[s] EXCEPT !.mdb_prev = NoPtr, !.mdb_next = NoPtr]

\* C27: revoke(node) changes no capability that is not derived from node.
\* Checked on a node that has just been derived from its parent (spliced in
\* after it), so that nothing is derived from the node yet: the slots before
\* it and the parent's earlier derivations that now follow it in the chain
\* (U -> B -> A -> A' and revoke(B)) keep their type, rights, paddr and args.
RevokeSparesUnderived ==
    [][\A n \in Slots :
         (/\ last.op = "mdb_insert_after" /\ last.child = n
          /\ call_revoke(n))
         => \A s \in Slots : CapOf(slot', s) = CapOf(slot, s)
      ]_vars

\* ======================================================================
\* Untyped memory and retype (objects/untyped.rs).
CNODE_DEPTH == 32
CNODE_ENTRY_BIT_SZ == 6
PAGE_BITS_4K == 12
MIN_BIT_SIZE == 4

\* alignup!(addr, sz): (addr + bit!(sz) - 1) & mask!(sz).
alignup(addr, sz) == (addr + Pow2(sz) - 1) % Pow2(sz)

\* UntypedCap accessors over the CapRaw of the untyped.
untyped_bit_size(cap) == cap.arg2 % Pow2(6)
untyped_size(cap) == Pow2(untyped_bit_size(cap))
free_offset(cap) == cap.arg2 \div Pow2(6)
set_free_offset(cap, off) == [cap EXCEPT !.arg2 = (cap.arg2 % Pow2(6)) + off * Pow2(6)]
untyped_is_device(cap) == cap.arg1 # 0

saturating_sub(a, b) == IF a > b THEN a - b ELSE 0

\* UntypedCap::object_alignment
object_alignment(obj_type, bit_size) ==
    CASE obj_type = "Frame" -> bit_size
      [] obj_type = "VSpace" -> PAGE_BITS_4K
      [] obj_type = "CNode" ->
            CNODE_ENTRY_BIT_SZ + saturating_sub(bit_size, CNODE_ENTRY_BIT_SZ)
      [] obj_type = "Tcb" -> 10
      [] OTHER -> bit_size

\* Option::None of object_size.
NoSize == -1

\* UntypedCap::object_size
object_size(obj_type, user_bits) ==
    CASE obj_type = "Frame" ->
            IF user_bits \in {12, 21, 30} THEN Pow2(user_bits) ELSE NoSize
      [] obj_type = "VSpace" -> Pow2(PAGE_BITS_4K)
      [] obj_type = "CNode" ->
            IF user_bits >= CNODE_ENTRY_BIT_SZ /\ user_bits <= 48
            THEN Pow2(user_bits) ELSE NoSize
      [] obj_type = "Tcb" -> Pow2(10)
      [] obj_type = "Untyped" ->
            IF user_bits >= MIN_BIT_SIZE /\ user_bits <= 48
            THEN Pow2(user_bits) ELSE NoSize
      [] OTHER -> NoSize

\* CachePolicy discriminants.
WriteBack == 0
Uncacheable == 2

\* FrameCap::mint: debug_assert!(paddr aligned to the frame size); arg1 packs
\* size bits (0..5), device (6) and cache policy (7..9); arg2 = 0 (unmapped).
FrameMint(paddr, size_bits, is_device, rights) ==
    [ok  |-> ~(debug_assertions /\ paddr % Pow2(size_bits) # 0),
     cap |-> [default_with_type("Frame") EXCEPT
                !.paddr = paddr,
                !.arg1 = size_bits + (IF is_device THEN 1 ELSE 0) * Pow2(6)
                         + (IF is_device THEN Uncacheable ELSE WriteBack) * Pow2(7),
                !.arg2 = 0,
                !.rights = rights]]

\* CNodeCap::mint: assert!(radix_sz + guard_sz <= CNODE_DEPTH) on the fields
\* cut to 6 bits; arg1 packs guard_bits (0..5) and radix_bits (6..11).
CNodeMint(addr, radix_bits, guard_bits, guard, rights) ==
    LET guard_sz == guard_bits % Pow2(6)
        radix_sz == radix_bits % Pow2(6)
    IN [ok  |-> radix_sz + guard_sz <= CNODE_DEPTH,
        cap |-> [default_with_type("CNode") EXCEPT
                   !.paddr = addr,
                   !.arg1 = guard_sz + radix_sz * Pow2(6),
                   !.arg2 = guard,
                   !.rights = rights]]

\* CNodeCap::guard_bits / radix_bits / guard
cnode_guard_bits(cap) == cap.arg1 % Pow2(6)
cnode_radix_bits(cap) == (cap.arg1 \div Pow2(6)) % Pow2(6)
cnode_guard(cap) == cap.arg2

\* VSpaceCap::mint: debug_assert!(pml4_paddr & 0xFFF == 0); arg1 = asid.
VSpaceMint(pml4_paddr, asid, rights) ==
    [ok  |-> ~(debug_assertions /\ pml4_paddr % Pow2(12) # 0),
     cap |-> [default_with_type("VSpace") EXCEPT
                !.paddr = pml4_paddr, !.arg1 = asid, !.arg2 = 0,
                !.rights = rights]]

\* retype, the capability minted for one object at addr.
\* result: "Ok", "InvalidValue" (type not mintable) or "Panic".
MintObject(obj_type, bit_size, addr, is_device) ==
    CASE obj_type = "Untyped" ->
            [result |-> "Ok", cap |-> UntypedMint(addr, bit_size, is_device)]
      [] obj_type = "CNode" ->
            LET radix_sz   == saturating_sub(bit_size, CNODE_ENTRY_BIT_SZ)
                guard_bits == saturating_sub(64, radix_sz)
                x == CNodeMint(addr, radix_sz, guard_bits, 0, RightsCONTROL)
            IN [result |-> IF x.ok THEN "Ok" ELSE "Panic", cap |-> x.cap]
      [] obj_type = "Frame" ->
            LET x == FrameMint(addr, bit_size, is_device, RightsREAD + RightsWRITE)
            IN [result |-> IF x.ok THEN "Ok" ELSE "Panic", cap |-> x.cap]
      [] obj_type = "VSpace" ->
            LET a    == (addr \div Pow2(PAGE_BITS_4K)) % Pow2(16)
                asid == IF a = 0 THEN 1 ELSE a
                x    == VSpaceMint(addr, asid, RightsCONTROL)
            IN [result |-> IF x.ok THEN "Ok" ELSE "Panic", cap |-> x.cap]
      [] OTHER -> [result |-> "InvalidValue", cap |-> NullCap]

\* retype, the loop over the destination slots: mint and slot.set(cap).
RECURSIVE MintLoop(_, _, _, _, _, _, _, _)
MintLoop(ss, dests, i, obj_type, bit_size, base, obj_size, is_device) ==
    IF i > Len(dests) THEN [result |-> "Ok", slots |-> ss]
    ELSE LET x == MintObject(obj_type, bit_size, base + (i - 1) * obj_size, is_device)
         IN IF x.result # "Ok" THEN [result |-> x.result, slots |-> ss]
            ELSE MintLoop([ss EXCEPT ![dests[i]] = x.cap], dests, i + 1,
                          obj_type, bit_size, base, obj_size, is_device)

\* A faulty variant of retype that looks at the first destination slot
\* only; RetypeRejectsOccupiedSlot tells the two apart.
retype_checks_first_slot(ss, u, obj_type, bit_size, dests) ==
    LET self     == ss[u]
        obj_size == object_size(obj_type, bit_size)
        count    == Len(dests)
        tot_size == count * obj_size
        aligned  == alignup(free_offset(self),
                            object_alignment(obj_type, bit_size))
        required == aligned + tot_size
        l == MintLoop(ss, dests, 1, obj_type, bit_size, self.paddr + aligned,
                      obj_size, untyped_is_device(self))
    IN IF Len(dests) > 0 /\ ~is_null(ss, dests[1])
       THEN [result |-> "SlotNotEmpty", slots |-> ss]
       ELSE IF untyped_is_device(self) /\ obj_type \notin {"Frame", "Untyped"}
       THEN [result |-> "InvalidValue", slots |-> ss]
       ELSE IF obj_size = NoSize
       THEN [result |-> "InvalidValue", slots |-> ss]
       ELSE IF untyped_size(self) < required
       THEN [result |-> "OutOfMemory", slots |-> ss]
       ELSE IF l.result # "Ok"
       THEN l
       ELSE [result |-> "Ok",
             slots  |-> [l.slots EXCEPT ![u] = set_free_offset(l.slots[u], required)]]

\* A faulty variant of retype that lets a device untyped produce a VSpace;
\* DeviceRetypeIntoNullSlots tells the two apart.
retype_device_vspace(ss, u, obj_type, bit_size, dests) ==
    LET self     == ss[u]
        obj_size == object_size(obj_type, bit_size)
        count    == Len(dests)
        tot_size == count * obj_size
        aligned  == alignup(free_offset(self),
                            object_alignment(obj_type, bit_size))
        required == aligned + tot_size
        l == MintLoop(ss, dests, 1, obj_type, bit_size, self.paddr + aligned,
                      obj_size, untyped_is_device(self))
    IN IF \E i \in 1..count : ~is_null(ss, dests[i])
       THEN [result |-> "SlotNotEmpty", slots |-> ss]
       ELSE IF untyped_is_device(self) /\ obj_type \notin {"Frame", "Untyped", "VSpace"}
       THEN [result |-> "InvalidValue", slots |-> ss]
       ELSE IF obj_size = NoSize
       THEN [result |-> "InvalidValue", slots |-> ss]
       ELSE IF untyped_size(self) < required
       THEN [result |-> "OutOfMemory", slots |-> ss]
       ELSE IF l.result # "Ok"
       THEN l
       ELSE [result |-> "Ok",
             slots  |-> [l.slots EXCEPT ![u] = set_free_offset(l.slots[u], required)]]

\* A faulty variant of retype that tests each destination slot only when
\* it reaches it, after minting the slots before it;
\* RetypeErrorChangesNothing tells the two apart.
retype_checks_while_minting(ss, u, obj_type, bit_size, dests) ==
    LET self     == ss[u]
        obj_size == object_size(obj_type, bit_size)
        count    == Len(dests)
        tot_size == count * obj_size
        aligned  == alignup(free_offset(self),
                            object_alignment(obj_type, bit_size))
        required == aligned + tot_size
        free     == {i \in 0..count : \A j \in 1..i : is_null(ss, dests[j])}
        reached  == CHOOSE i \in free : \A j \in free : j <= i
        l == MintLoop(ss, SubSeq(dests, 1, reached), 1, obj_type, bit_size,
                      self.paddr + aligned, obj_size, untyped_is_device(self))
    IN IF untyped_is_device(self) /\ obj_type \notin {"Frame", "Untyped"}
       THEN [result |-> "InvalidValue", slots |-> ss]
       ELSE IF obj_size = NoSize
       THEN [result |-> "InvalidValue", slots |-> ss]
       ELSE IF untyped_size(self) < required
       THEN [result |-> "OutOfMemory", slots |-> ss]
       ELSE IF l.result # "Ok"
       THEN l
       ELSE IF reached < count
       THEN [result |-> "SlotNotEmpty", slots |-> l.slots]
       ELSE [result |-> "Ok",
             slots  |-> [l.slots EXCEPT ![u] = set_free_offset(l.slots[u], required)]]

\* UntypedCap::retype(obj_type, bit_size, slots) on the untyped in slot u.
\* dests: the destination slots, in order.
retype(ss, u, obj_type, bit_size, dests) ==
    LET self     == ss[u]
        obj_size == object_size(obj_type, bit_size)
        count    == Len(dests)
        tot_size == count * obj_size
        aligned  == alignup(free_offset(self),
                            object_alignment(obj_type, bit_size))
        required == aligned + tot_size
        l == MintLoop(ss, dests, 1, obj_type, bit_size, self.paddr + aligned,
                      obj_size, untyped_is_device(self))
    IN IF \E i \in 1..count : ~is_null(ss, dests[i])
       THEN [result |-> "SlotNotEmpty", slots |-> ss]
       ELSE IF untyped_is_device(self) /\ obj_type \notin {"Frame", "Untyped"}
       THEN [result |-> "InvalidValue", slots |-> ss]
       ELSE IF obj_size = NoSize
       THEN [result |-> "InvalidValue", slots |-> ss]
       ELSE IF untyped_size(self) < required
       THEN [result |-> "OutOfMemory", slots |-> ss]
       ELSE IF l.result # "Ok"
       THEN l
       ELSE [result |-> "Ok",
             slots  |-> [l.slots EXCEPT ![u] = set_free_offset(l.slots[u], required)]]

\* ----------------------------------------------------------------------
\* The slots of the retype model: two untyped capabilities (one of them
\* device memory) and empty destination slots.
NumDestSlots == 17
UntypedSlot == 1
DeviceSlot == 2
FirstDest == 3
RetypeSlots == 1..(FirstDest + NumDestSlots - 1)

\* The 2^16-byte untyped of the model, at paddr 2^16.
UntypedBits == 16

DestSeq(first, count) == [i \in 1..count |-> first + i - 1]

\* (obj_type, bit_size) arguments exercised by the model.
RetypeKinds ==
    {<<"Frame", 12>>, <<"Frame", 13>>, <<"Untyped", 12>>, <<"CNode", 6>>,
     <<"CNode", 8>>, <<"Tcb", 10>>, <<"VSpace", 12>>, <<"Endpoint", 12>>}

\* Destination slices <<first, count>> exercised by the model.
RetypeSlices ==
    {<<FirstDest, 16>>, <<FirstDest, 1>>, <<FirstDest + 1, 1>>,
     <<FirstDest + 1, 2>>, <<FirstDest + 16, 1>>}

\* Calls of retype explored per behaviour.
MaxRetypes == 3

call_retype(u, obj_type, bit_size, first, count) ==
    /\ ~panicked
    /\ Step(MaxRetypes)
    /\ UNCHANGED <<ipcVars, executor, once, resolving, debug_assertions>>
    /\ slot[u].cap_type = "Untyped"
    /\ LET r == retype(slot, u, obj_type, bit_size, DestSeq(first, count))
       IN /\ slot' = r.slots
          /\ panicked' = (r.result = "Panic")
          /\ last' = [op |-> "retype", untyped |-> u, obj_type |-> obj_type,
                      bit_size |-> bit_size, first |-> first, count |-> count,
                      result |-> r.result]
    /\ UNCHANGED pt

RetypeInit ==
    /\ slot = [s \in RetypeSlots |->
                 CASE s = UntypedSlot -> UntypedMint(Pow2(16), UntypedBits, FALSE)
                   [] s = DeviceSlot -> UntypedMint(Pow2(20), 13, TRUE)
                   [] OTHER -> NullCap]
    /\ pt = <<>>

InitRetype == IpcInit /\ RetypeInit /\ BuildInit

NextRetype ==
    \/ \E u \in {UntypedSlot, DeviceSlot}, k \in RetypeKinds, d \in RetypeSlices :
          call_retype(u, k[1], k[2], d[1], d[2])
    \/ \E s \in {UntypedSlot, DeviceSlot} : call_revoke(s)

SpecRetype == InitRetype /\ [][NextRetype]_vars

\* ----------------------------------------------------------------------
\* C5: across any sequence of retype calls on the same untyped, successful
\* or failing and with any mix of object types and sizes, the untyped's
\* free_offset never decreases.
FreeOffsetNeverDecreases ==
    [][\A u \in {UntypedSlot, DeviceSlot} :
         free_offset(slot'[u]) >= free_offset(slot[u])
      ]_vars

\* x rounded up to the next multiple of 2^bits.
RoundUp(x, bits) == ((x + Pow2(bits) - 1) \div Pow2(bits)) * Pow2(bits)

\* C6: retype(type, user_bits, slots) on an untyped of size 2^bit_size
\* computes aligned_offset as free_offset rounded up to the next multiple of
\* 2^alignment for the type, fails with OutOfMemory iff aligned_offset +
\* count * object_size > 2^bit_size, and otherwise sets free_offset to
\* exactly that sum; so on a fresh untyped of size 2^16,
\* retype(Frame, 12, 16 slots) succeeds and leaves free_offset = 65536, and a
\* following retype(Frame, 12, 1 slot) fails with OutOfMemory.
\* (Stated for the calls that end Ok or OutOfMemory.)
RetypeAlignsAndBumps ==
    [][(last'.op = "retype" /\ last'.result \in {"Ok", "OutOfMemory"}) =>
         LET u        == last'.untyped
             aligned  == RoundUp(free_offset(slot[u]),
                                 object_alignment(last'.obj_type, last'.bit_size))
             required == aligned
                         + last'.count * object_size(last'.obj_type, last'.bit_size)
         IN /\ (last'.result = "OutOfMemory") <=> (required > untyped_size(slot[u]))
            /\ last'.result = "Ok" => free_offset(slot'[u]) = required
            /\ (/\ u = UntypedSlot
                /\ free_offset(slot[u]) = 0
                /\ last'.obj_type = "Frame" /\ last'.bit_size = 12
                /\ last'.count = 16) =>
                  (last'.result = "Ok" /\ free_offset(slot'[u]) = 65536)
      ]_vars

\* C7: after a successful retype from the untyped in slot U into destination
\* slots, each new capability is in U's derivation chain (inserted
\* immediately after U), so that a following revoke on U makes every
\* destination slot of that retype Null again while leaving U's free_offset
\* field as retype left it.
RetypeThenRevokeEmptiesSlots ==
    [][/\ (last'.op = "retype" /\ last'.result = "Ok") =>
            \A i \in 1..last'.count :
               (last'.first + i - 1) \in Range(Descendants(slot', last'.untyped))
       /\ (/\ last.op = "retype" /\ last.result = "Ok"
           /\ call_revoke(last.untyped)) =>
            /\ \A i \in 1..last.count : is_null(slot', last.first + i - 1)
            /\ free_offset(slot'[last.untyped]) = free_offset(slot[last.untyped])
      ]_vars

\* The destination slots of a slice <<first, count>> that hold a capability.
Occupied(d) == {i \in Range(DestSeq(d[1], d[2])) : ~is_null(slot, i)}

\* C19: retype called with at least one destination slot that is not Null
\* returns SlotNotEmpty whatever the untyped, the object type and the size
\* are; it overwrites no slot and leaves free_offset as it was.
RetypeRejectsOccupiedSlot ==
    [][\A u \in {UntypedSlot, DeviceSlot}, k \in RetypeKinds, d \in RetypeSlices :
         (Occupied(d) # {} /\ call_retype(u, k[1], k[2], d[1], d[2]))
         => /\ last'.result = "SlotNotEmpty"
            /\ slot' = slot
            /\ free_offset(slot'[u]) = free_offset(slot[u])
      ]_vars

\* A retype into sixteen slots, the second of them occupied by an earlier
\* retype, has just been refused.
RetypeRejectsOccupiedWitness ==
    /\ last.op = "retype" /\ last.result = "SlotNotEmpty"
    /\ last.first = FirstDest /\ last.count = 16
    /\ is_null(slot, FirstDest) /\ ~is_null(slot, FirstDest + 1)

\* C20 as stated: retype on a device untyped with a target type other than
\* Frame or Untyped returns InvalidValue and creates no capability.
DeviceRetypeIsInvalidValue ==
    [][\A k \in RetypeKinds, d \in RetypeSlices :
         (/\ untyped_is_device(slot[DeviceSlot])
          /\ k[1] \notin {"Frame", "Untyped"}
          /\ call_retype(DeviceSlot, k[1], k[2], d[1], d[2]))
         => /\ last'.result = "InvalidValue"
            /\ slot' = slot
      ]_vars

\* C20, amended: retype on a device untyped with a target type other than
\* Frame or Untyped creates no capability; it returns InvalidValue when
\* every destination slot is Null and SlotNotEmpty otherwise (the slot
\* check comes first).
DeviceRetypeIntoNullSlots ==
    [][\A k \in RetypeKinds, d \in RetypeSlices :
         (/\ untyped_is_device(slot[DeviceSlot])
          /\ k[1] \notin {"Frame", "Untyped"}
          /\ call_retype(DeviceSlot, k[1], k[2], d[1], d[2]))
         => /\ last'.result = IF Occupied(d) = {} THEN "InvalidValue"
                              ELSE "SlotNotEmpty"
            /\ slot' = slot
      ]_vars

\* A device untyped has just been asked for a VSpace in an empty slot and
\* answered InvalidValue.
DeviceRetypeWitness ==
    /\ last.op = "retype" /\ last.result = "InvalidValue"
    /\ last.untyped = DeviceSlot /\ untyped_is_device(slot[DeviceSlot])
    /\ last.obj_type = "VSpace"
    /\ \A i \in Range(DestSeq(last.first, last.count)) : is_null(slot, i)

\* C26: objects created by any sequence of successful retypes on one
\* untyped occupy pairwise disjoint byte ranges inside
\* [paddr, paddr + 2^bit_size), each at an offset that is a multiple of
\* 2^alignment for its type.  Step by step: the objects of a successful
\* retype start at or after the untyped's free_offset (above every earlier
\* object), end at or below its new free_offset and the end of the region,
\* follow each other without overlap, and are aligned.
RetypeObjectsDisjointAligned ==
    [][\A u \in {UntypedSlot, DeviceSlot}, k \in RetypeKinds, d \in RetypeSlices :
         (call_retype(u, k[1], k[2], d[1], d[2]) /\ last'.result = "Ok")
         => LET size   == object_size(k[1], k[2])
                base   == slot[u].paddr
                Obj(i) == slot'[d[1] + i - 1].paddr
            IN \A i \in 1..d[2] :
                  /\ Obj(i) >= base + free_offset(slot[u])
                  /\ Obj(i) + size <= base + free_offset(slot'[u])
                  /\ Obj(i) + size <= base + untyped_size(slot[u])
                  /\ (Obj(i) - base) % Pow2(object_alignment(k[1], k[2])) = 0
                  /\ \A j \in (i + 1)..d[2] : Obj(i) + size <= Obj(j)
      ]_vars


\* The error results of retype.
RetypeErrors == {"SlotNotEmpty", "InvalidValue", "OutOfMemory"}

\* C31: whenever retype returns an error (SlotNotEmpty, InvalidValue or
\* OutOfMemory), for any object type and slot count, every destination slot
\* still holds what it held before the call and the untyped's free_offset is
\* unchanged; no prefix of the destination slots is left minted.
RetypeErrorChangesNothing ==
    \A u \in {UntypedSlot, DeviceSlot}, k \in RetypeKinds, d \in RetypeSlices :
        LET r == retype(slot, u, k[1], k[2], DestSeq(d[1], d[2]))
        IN r.result \in RetypeErrors
              => /\ \A i \in 1..d[2] : r.slots[d[1] + i - 1] = slot[d[1] + i - 1]
                 /\ free_offset(r.slots[u]) = free_offset(slot[u])
                 /\ r.slots = slot

\* A Tcb retype into sixteen free slots has just failed inside the mint
\* loop, after the slot, device, size and space checks had passed.
RetypeErrorWitness ==
    /\ last.op = "retype" /\ last.result = "InvalidValue"
    /\ last.obj_type = "Tcb" /\ last.untyped = UntypedSlot
    /\ last.count = 16 /\ last.first = FirstDest
    /\ Occupied(<<FirstDest, 16>>) = {}


\* The space a retype of count objects needs, as retype computes it.
RetypeRequired(u, obj_type, bit_size, count) ==
    alignup(free_offset(slot[u]), object_alignment(obj_type, bit_size))
    + count * object_size(obj_type, bit_size)

\* C32: retype(CNode, user_bits, slots) with slot_bit_width <= user_bits <= 48
\* and enough free space returns Ok (it does not abort on an assertion) and
\* fills each slot with a CNode capability whose radix_bits = user_bits -
\* slot_bit_width, guard = 0 and guard_bits = 32 - radix_bits.
RetypeCNodeFillsDepth ==
    [][\A k \in RetypeKinds, d \in RetypeSlices :
         (/\ k[1] = "CNode" /\ k[2] >= CNODE_ENTRY_BIT_SZ /\ k[2] <= 48
          /\ Occupied(d) = {}
          /\ RetypeRequired(UntypedSlot, k[1], k[2], d[2])
                <= untyped_size(slot[UntypedSlot])
          /\ call_retype(UntypedSlot, k[1], k[2], d[1], d[2]))
         => /\ last'.result = "Ok"
            /\ \A i \in 1..d[2] :
                 LET cap == slot'[d[1] + i - 1]
                 IN /\ cap.cap_type = "CNode"
                    /\ cnode_radix_bits(cap) = k[2] - CNODE_ENTRY_BIT_SZ
                    /\ cnode_guard(cap) = 0
                    /\ cnode_guard_bits(cap) = CNODE_DEPTH - cnode_radix_bits(cap)
      ]_vars


\* C33: retype(Tcb, _, slots) on a normal (non-device) untyped with Null
\* destination slots and enough free space succeeds and fills each slot with
\* a Tcb capability; the objects are 1024 bytes each at 1024-aligned
\* addresses.
RetypeTcbSucceeds ==
    [][\A k \in RetypeKinds, d \in RetypeSlices :
         (/\ k[1] = "Tcb"
          /\ Occupied(d) = {}
          /\ RetypeRequired(UntypedSlot, k[1], k[2], d[2])
                <= untyped_size(slot[UntypedSlot])
          /\ call_retype(UntypedSlot, k[1], k[2], d[1], d[2]))
         => /\ last'.result = "Ok"
            /\ \A i \in 1..d[2] :
                 LET cap == slot'[d[1] + i - 1]
                 IN /\ cap.cap_type = "Tcb"
                    /\ cap.paddr % Pow2(10) = 0
                    /\ \A j \in (i + 1)..d[2] :
                          slot'[d[1] + j - 1].paddr >= cap.paddr + Pow2(10)
      ]_vars

\* ======================================================================
\* Frames and the x86-64 page tables (objects/frame.rs, objects/vspace.rs,
\* arch/x86_64/vspace/entry.rs).  pt maps <<table paddr, index>> to the
\* entry stored there; an absent key is the zero (invalid) entry.

\* PageTableEntry::invalid
InvalidEntry ==
    [present |-> FALSE, writable |-> FALSE, user |-> FALSE,
     write_through |-> FALSE, cache_disable |-> FALSE, huge |-> FALSE,
     no_execute |-> FALSE, addr |-> 0]

\* paddr & ADDR_MASK: bits 12..51 of the address.
AddrMask(paddr) == (paddr \div Pow2(12)) * Pow2(12)

\* Pml4e / Pdpte / Pde ::new_table
new_table(paddr) ==
    [InvalidEntry EXCEPT !.present = TRUE, !.writable = TRUE, !.user = TRUE,
                         !.addr = AddrMask(paddr)]

\* FrameCap::cache_policy
cache_policy(cap) ==
    LET policy == (cap.arg1 \div Pow2(7)) % Pow2(3)
    IN IF policy \in {0, 1, 2, 3} THEN policy ELSE WriteBack

\* build_flags(attr), attr = FrameCap::vm_attributes(user)
build_flags(cap, user) ==
    [InvalidEntry EXCEPT
        !.present = TRUE,
        !.writable = ((cap.rights \div RightsWRITE) % 2 = 1),
        !.user = user,
        !.write_through = (cache_policy(cap) \in {1, 3}),
        !.cache_disable = (cache_policy(cap) \in {Uncacheable, 3}),
        !.no_execute = ((cap.rights \div 4) % 2 = 0)]

\* Pte::new_page
new_page(paddr, cap, user) ==
    [build_flags(cap, user) EXCEPT !.addr = AddrMask(paddr)]

\* Pde::new_large_page / Pdpte::new_huge_page
new_huge_page(paddr, cap, user) ==
    [build_flags(cap, user) EXCEPT !.huge = TRUE, !.addr = AddrMask(paddr)]

\* Table<L>[idx]
EntryAt(p, table, idx) ==
    IF <<table, idx>> \in DOMAIN p THEN p[<<table, idx>>] ELSE InvalidEntry

\* Table<L>[idx] = e
SetEntry(p, table, idx, e) ==
    LET key  == <<table, idx>>
        keys == IF e = InvalidEntry THEN DOMAIN p \ {key} ELSE DOMAIN p \cup {key}
    IN [k \in keys |-> IF k = key THEN e ELSE p[k]]

is_present(e) == e.present
\* Pdpte / Pde ::is_page
is_page(e) == e.present /\ e.huge

\* VSpaceCap::vaddr_indices
pml4_idx(vaddr) == ((vaddr \div Pow2(30)) \div Pow2(9)) % 512
pdpt_idx(vaddr) == (vaddr \div Pow2(30)) % 512
pd_idx(vaddr) == (vaddr \div Pow2(21)) % 512
pt_idx(vaddr) == (vaddr \div Pow2(12)) % 512

\* VSpaceCap::is_canonical: vaddr >> 47 is 0 or 0x1FFFF.
is_canonical(vaddr) == ((vaddr \div Pow2(30)) \div Pow2(17)) \in {0, 131071}

\* FrameCap accessors over the CapRaw of the frame.
frame_size(cap) ==
    LET bits == cap.arg1 % Pow2(6)
    IN IF bits \in {12, 21, 30} THEN bits ELSE 12
mapped_asid(cap) == (cap.arg1 \div Pow2(10)) % Pow2(16)
mapped_vaddr(cap) == cap.arg2
is_mapped(cap) == mapped_asid(cap) # 0
is_aligned(size_bits, addr) == addr % Pow2(size_bits) = 0

\* FrameCap::is_device
frame_is_device(cap) == (cap.arg1 \div Pow2(6)) % 2 # 0

\* A faulty variant of set_mapped that rebuilds arg1 from the ASID alone and
\* loses the size, device and cache fields; SetMappedRoundTrip tells the two
\* apart.
set_mapped_drops_fields(cap, asid, vaddr) ==
    IF is_mapped(cap) THEN [result |-> "FrameAlreadyMapped", cap |-> cap]
    ELSE [result |-> "Ok",
          cap |-> [cap EXCEPT !.arg1 = asid * Pow2(10), !.arg2 = vaddr]]

\* FrameCap::set_mapped
set_mapped(cap, asid, vaddr) ==
    IF is_mapped(cap) THEN [result |-> "FrameAlreadyMapped", cap |-> cap]
    ELSE [result |-> "Ok",
          cap |-> [cap EXCEPT
                     !.arg1 = cap.arg1 - mapped_asid(cap) * Pow2(10)
                              + asid * Pow2(10),
                     !.arg2 = vaddr]]

\* FrameCap::clear_mapped
clear_mapped(cap) ==
    [cap EXCEPT !.arg1 = cap.arg1 - mapped_asid(cap) * Pow2(10), !.arg2 = 0]

\* VSpaceCap::asid
vspace_asid(cap) == cap.arg1 % Pow2(16)

\* VSpaceCap::walk
walk(p, root, vaddr) ==
    LET pml4e == EntryAt(p, root, pml4_idx(vaddr))
        pdpte == EntryAt(p, pml4e.addr, pdpt_idx(vaddr))
        pde   == EntryAt(p, pdpte.addr, pd_idx(vaddr))
        pte   == EntryAt(p, pde.addr, pt_idx(vaddr))
    IN IF ~is_canonical(vaddr) THEN [kind |-> "InvalidVAddr"]
       ELSE IF ~is_present(pml4e) THEN [kind |-> "NotMapped", level |-> 4]
       ELSE IF ~is_present(pdpte) THEN [kind |-> "NotMapped", level |-> 3]
       ELSE IF is_page(pdpte)
       THEN [kind |-> "MappedPage", paddr |-> pdpte.addr, size |-> 30, level |-> 3]
       ELSE IF ~is_present(pde) THEN [kind |-> "NotMapped", level |-> 2]
       ELSE IF is_page(pde)
       THEN [kind |-> "MappedPage", paddr |-> pde.addr, size |-> 21, level |-> 2]
       ELSE IF ~is_present(pte) THEN [kind |-> "NotMapped", level |-> 1]
       ELSE [kind |-> "MappedPage", paddr |-> pte.addr, size |-> 12, level |-> 1]

\* VSpaceCap::map_4k; returns the result and the page-table memory.
map_4k(p, root, vaddr, cap, user) ==
    LET pml4e == EntryAt(p, root, pml4_idx(vaddr))
        pdpte == EntryAt(p, pml4e.addr, pdpt_idx(vaddr))
        pde   == EntryAt(p, pdpte.addr, pd_idx(vaddr))
        pte   == EntryAt(p, pde.addr, pt_idx(vaddr))
        Err(e) == [result |-> e, pt |-> p]
    IN IF ~is_canonical(vaddr) THEN Err("InvalidVAddr")
       ELSE IF ~is_aligned(12, vaddr) THEN Err("MisalignedVAddr")
       ELSE IF ~is_aligned(12, cap.paddr) THEN Err("MisalignedPAddr")
       ELSE IF ~is_present(pml4e) THEN Err("MissingTable")
       ELSE IF ~is_present(pdpte) THEN Err("MissingTable")
       ELSE IF is_page(pdpte) THEN Err("AlreadyMapped")
       ELSE IF ~is_present(pde) THEN Err("MissingTable")
       ELSE IF is_page(pde) THEN Err("AlreadyMapped")
       ELSE IF is_present(pte) THEN Err("AlreadyMapped")
       ELSE [result |-> "Ok",
             pt |-> SetEntry(p, pde.addr, pt_idx(vaddr),
                             new_page(cap.paddr, cap, user))]

\* A faulty variant of map_2m that does not look at the target entry and
\* overwrites a page table or a page found there; MapErrorsChangeNothing
\* tells the two apart.
map_2m_over_present(p, root, vaddr, cap, user) ==
    LET pml4e == EntryAt(p, root, pml4_idx(vaddr))
        pdpte == EntryAt(p, pml4e.addr, pdpt_idx(vaddr))
        Err(e) == [result |-> e, pt |-> p]
    IN IF ~is_canonical(vaddr) THEN Err("InvalidVAddr")
       ELSE IF ~is_aligned(21, vaddr) THEN Err("MisalignedVAddr")
       ELSE IF ~is_aligned(21, cap.paddr) THEN Err("MisalignedPAddr")
       ELSE IF ~is_present(pml4e) THEN Err("MissingTable")
       ELSE IF ~is_present(pdpte) THEN Err("MissingTable")
       ELSE IF is_page(pdpte) THEN Err("AlreadyMapped")
       ELSE [result |-> "Ok",
             pt |-> SetEntry(p, pdpte.addr, pd_idx(vaddr),
                             new_huge_page(cap.paddr, cap, user))]

\* VSpaceCap::map_2m
map_2m(p, root, vaddr, cap, user) ==
    LET pml4e == EntryAt(p, root, pml4_idx(vaddr))
        pdpte == EntryAt(p, pml4e.addr, pdpt_idx(vaddr))
        pde   == EntryAt(p, pdpte.addr, pd_idx(vaddr))
        Err(e) == [result |-> e, pt |-> p]
    IN IF ~is_canonical(vaddr) THEN Err("InvalidVAddr")
       ELSE IF ~is_aligned(21, vaddr) THEN Err("MisalignedVAddr")
       ELSE IF ~is_aligned(21, cap.paddr) THEN Err("MisalignedPAddr")
       ELSE IF ~is_present(pml4e) THEN Err("MissingTable")
       ELSE IF ~is_present(pdpte) THEN Err("MissingTable")
       ELSE IF is_page(pdpte) THEN Err("AlreadyMapped")
       ELSE IF is_present(pde) THEN Err("AlreadyMapped")
       ELSE [result |-> "Ok",
             pt |-> SetEntry(p, pdpte.addr, pd_idx(vaddr),
                             new_huge_page(cap.paddr, cap, user))]

\* VSpaceCap::map_1g
map_1g(p, root, vaddr, cap, user) ==
    LET pml4e == EntryAt(p, root, pml4_idx(vaddr))
        pdpte == EntryAt(p, pml4e.addr, pdpt_idx(vaddr))
        Err(e) == [result |-> e, pt |-> p]
    IN IF ~is_canonical(vaddr) THEN Err("InvalidVAddr")
       ELSE IF ~is_aligned(30, vaddr) THEN Err("MisalignedVAddr")
       ELSE IF ~is_aligned(30, cap.paddr) THEN Err("MisalignedPAddr")
       ELSE IF ~is_present(pml4e) THEN Err("MissingTable")
       ELSE IF is_present(pdpte) THEN Err("AlreadyMapped")
       ELSE [result |-> "Ok",
             pt |-> SetEntry(p, pml4e.addr, pdpt_idx(vaddr),
                             new_huge_page(cap.paddr, cap, user))]

\* VSpaceCap::map_frame: dispatch on the frame's size and nothing else.
map_frame(p, root, vaddr, cap, user) ==
    CASE frame_size(cap) = 12 -> map_4k(p, root, vaddr, cap, user)
      [] frame_size(cap) = 21 -> map_2m(p, root, vaddr, cap, user)
      [] frame_size(cap) = 30 -> map_1g(p, root, vaddr, cap, user)

\* A faulty variant of VSpaceCap::unmap that reports a 2 MiB page unmapped
\* without clearing its entry; MapWalkUnmapRoundTrip tells the two apart.
unmap_keeps_large_page(p, root, vaddr) ==
    LET pml4e == EntryAt(p, root, pml4_idx(vaddr))
        pdpte == EntryAt(p, pml4e.addr, pdpt_idx(vaddr))
        pde   == EntryAt(p, pdpte.addr, pd_idx(vaddr))
        pte   == EntryAt(p, pde.addr, pt_idx(vaddr))
        Err(e) == [result |-> e, paddr |-> 0, size |-> 0, pt |-> p]
        Done(e, size, table, idx) ==
            [result |-> "Ok", paddr |-> e.addr, size |-> size,
             pt |-> SetEntry(p, table, idx, InvalidEntry)]
    IN IF ~is_canonical(vaddr) THEN Err("InvalidVAddr")
       ELSE IF ~is_present(pml4e) THEN Err("NotMapped")
       ELSE IF ~is_present(pdpte) THEN Err("NotMapped")
       ELSE IF is_page(pdpte) THEN Done(pdpte, 30, pml4e.addr, pdpt_idx(vaddr))
       ELSE IF ~is_present(pde) THEN Err("NotMapped")
       ELSE IF is_page(pde)
       THEN [result |-> "Ok", paddr |-> pde.addr, size |-> 21, pt |-> p]
       ELSE IF ~is_present(pte) THEN Err("NotMapped")
       ELSE Done(pte, 12, pde.addr, pt_idx(vaddr))

\* VSpaceCap::unmap; returns the result, the unmapped (paddr, size) and
\* the page-table memory.
unmap(p, root, vaddr) ==
    LET pml4e == EntryAt(p, root, pml4_idx(vaddr))
        pdpte == EntryAt(p, pml4e.addr, pdpt_idx(vaddr))
        pde   == EntryAt(p, pdpte.addr, pd_idx(vaddr))
        pte   == EntryAt(p, pde.addr, pt_idx(vaddr))
        Err(e) == [result |-> e, paddr |-> 0, size |-> 0, pt |-> p]
        Done(e, size, table, idx) ==
            [result |-> "Ok", paddr |-> e.addr, size |-> size,
             pt |-> SetEntry(p, table, idx, InvalidEntry)]
    IN IF ~is_canonical(vaddr) THEN Err("InvalidVAddr")
       ELSE IF ~is_present(pml4e) THEN Err("NotMapped")
       ELSE IF ~is_present(pdpte) THEN Err("NotMapped")
       ELSE IF is_page(pdpte) THEN Done(pdpte, 30, pml4e.addr, pdpt_idx(vaddr))
       ELSE IF ~is_present(pde) THEN Err("NotMapped")
       ELSE IF is_page(pde) THEN Done(pde, 21, pdpte.addr, pd_idx(vaddr))
       ELSE IF ~is_present(pte) THEN Err("NotMapped")
       ELSE Done(pte, 12, pde.addr, pt_idx(vaddr))

\* VSpaceCap::install_table
install_table(p, root, vaddr, level, table_paddr) ==
    LET pml4e == EntryAt(p, root, pml4_idx(vaddr))
        pdpte == EntryAt(p, pml4e.addr, pdpt_idx(vaddr))
        pde   == EntryAt(p, pdpte.addr, pd_idx(vaddr))
        Err(e) == [result |-> e, pt |-> p]
        Put(table, idx) ==
            [result |-> "Ok", pt |-> SetEntry(p, table, idx, new_table(table_paddr))]
    IN IF ~is_canonical(vaddr) THEN Err("InvalidVAddr")
       ELSE IF ~is_aligned(12, table_paddr) THEN Err("MisalignedPAddr")
       ELSE CASE level = 3 ->
                   IF is_present(pml4e) THEN Err("AlreadyMapped")
                   ELSE Put(root, pml4_idx(vaddr))
              [] level = 2 ->
                   IF ~is_present(pml4e) THEN Err("MissingTable")
                   ELSE IF is_present(pdpte) THEN Err("AlreadyMapped")
                   ELSE Put(pml4e.addr, pdpt_idx(vaddr))
              [] level = 1 ->
                   IF ~is_present(pml4e) THEN Err("MissingTable")
                   ELSE IF ~is_present(pdpte) THEN Err("MissingTable")
                   ELSE IF is_page(pdpte) THEN Err("AlreadyMapped")
                   ELSE IF is_present(pde) THEN Err("AlreadyMapped")
                   ELSE Put(pdpte.addr, pd_idx(vaddr))
              [] OTHER -> Err("InvalidVAddr")

\* ----------------------------------------------------------------------
\* One address space and four frames.  Slots 1 and 2 hold 4 KiB frames,
\* slot 3 a 2 MiB frame, slot 5 a 1 GiB frame, slot 4 the VSpace capability
\* of an empty PML4.

MaxVmOps == 5

SmallFrameA == 1
SmallFrameB == 2
LargeFrame == 3
VSpaceSlot == 4
HugeFrame == 5
VmSlots == 1..5
FrameSlots == {SmallFrameA, SmallFrameB, LargeFrame, HugeFrame}

Pml4Page == 1048576
VmAsid == 256

\* 0x1000, 0x2000, 0x20_0000, 0x4000_0000
Vaddrs == {4096, 8192, 2097152, 1073741824}

\* (vaddr, level, table page) of the install_table calls issued; the last
\* two are an unsupported level and a misaligned table.
InstallArgs ==
    { <<4096, 3, 1052672>>, <<4096, 2, 1056768>>, <<1073741824, 2, 1060864>>,
      <<4096, 1, 1064960>>, <<2097152, 1, 1069056>>,
      <<1073741824, 1, 1073152>>, <<4096, 4, 1052672>>, <<4096, 3, 1052673>> }

VmInit ==
    /\ slot = [s \in VmSlots |->
                 CASE s = SmallFrameA ->
                        FrameMint(20480, 12, FALSE, RightsREAD + RightsWRITE).cap
                   [] s = SmallFrameB ->
                        FrameMint(24576, 12, FALSE, RightsREAD).cap
                   [] s = LargeFrame ->
                        FrameMint(4194304, 21, FALSE, RightsREAD + RightsWRITE).cap
                   [] s = HugeFrame ->
                        FrameMint(1073741824, 30, FALSE, RightsREAD + RightsWRITE).cap
                   [] OTHER -> VSpaceMint(Pml4Page, VmAsid, RightsCONTROL).cap]
    /\ pt = <<>>
    /\ tcb = <<>> /\ ep = <<>> /\ scheduler_set = FALSE /\ ready = <<>>

VmStep ==
    /\ ~panicked
    /\ Step(MaxVmOps)
    /\ UNCHANGED <<ipcVars, executor, once, resolving, debug_assertions, panicked>>

call_map_frame(vs, vaddr, f, user) ==
    LET r == map_frame(pt, slot[vs].paddr, vaddr, slot[f], user)
    IN /\ VmStep
       /\ pt' = r.pt
       /\ UNCHANGED slot
       /\ last' = [op |-> "map_frame", frame |-> f, vaddr |-> vaddr,
                   was_mapped |-> is_mapped(slot[f]), result |-> r.result]

call_unmap(vs, vaddr) ==
    LET r == unmap(pt, slot[vs].paddr, vaddr)
    IN /\ VmStep
       /\ pt' = r.pt
       /\ UNCHANGED slot
       /\ last' = [op |-> "unmap", vaddr |-> vaddr, result |-> r.result,
                   paddr |-> r.paddr, size |-> r.size]

call_set_mapped(f, asid, vaddr) ==
    LET r == set_mapped(slot[f], asid, vaddr)
    IN /\ VmStep
       /\ slot' = [slot EXCEPT ![f] = r.cap]
       /\ UNCHANGED pt
       /\ last' = [op |-> "set_mapped", frame |-> f, vaddr |-> vaddr,
                   result |-> r.result]

call_clear_mapped(f) ==
    /\ VmStep
    /\ slot' = [slot EXCEPT ![f] = clear_mapped(slot[f])]
    /\ UNCHANGED pt
    /\ last' = [op |-> "clear_mapped", frame |-> f]

call_install_table(vs, vaddr, level, table_paddr) ==
    LET r == install_table(pt, slot[vs].paddr, vaddr, level, table_paddr)
    IN /\ VmStep
       /\ pt' = r.pt
       /\ UNCHANGED slot
       /\ last' = [op |-> "install_table", vaddr |-> vaddr, level |-> level,
                   result |-> r.result]

InitVm == BuildInit /\ VmInit

NextVm ==
    \/ \E v \in Vaddrs, f \in FrameSlots, user \in BOOLEAN :
          call_map_frame(VSpaceSlot, v, f, user)
    \/ \E v \in Vaddrs : call_unmap(VSpaceSlot, v)
    \/ \E f \in FrameSlots, v \in Vaddrs :
          call_set_mapped(f, vspace_asid(slot[VSpaceSlot]), v)
    \/ \E f \in FrameSlots : call_clear_mapped(f)
    \/ \E a \in InstallArgs : call_install_table(VSpaceSlot, a[1], a[2], a[3])

SpecVm == InitVm /\ [][NextVm]_vars

\* The virtual addresses at which the page tables of the address space map
\* the physical page paddr.
MappedAt(paddr) ==
    { v \in Vaddrs :
        LET w == walk(pt, slot[VSpaceSlot].paddr, v)
        IN w.kind = "MappedPage" /\ w.paddr = paddr }

\* C4: every Frame capability has is_mapped iff its mapped_asid is non-zero
\* and the page tables of that address space map mapped_vaddr to the frame's
\* paddr; the frame's paddr is installed at no more than one virtual address;
\* and a map_frame of a frame that is already mapped is rejected.
FrameMappingCoherent ==
    /\ \A f \in FrameSlots :
          /\ is_mapped(slot[f]) <=>
                /\ mapped_asid(slot[f]) # 0
                /\ mapped_asid(slot[f]) = vspace_asid(slot[VSpaceSlot])
                /\ mapped_vaddr(slot[f]) \in MappedAt(slot[f].paddr)
          /\ Cardinality(MappedAt(slot[f].paddr)) <= 1
    /\ (last.op = "map_frame" /\ last.was_mapped) => last.result # "Ok"

\* The level at which walk finds a page of the given size.
LevelOf(size_bits) == CASE size_bits = 12 -> 1 [] size_bits = 21 -> 2
                        [] size_bits = 30 -> 3

\* C15: for each supported size, when the intermediate tables of vaddr are
\* installed and the target entry is absent, mapping a frame of that size
\* (at addresses aligned to it) succeeds; walk(vaddr) then reports
\* MappedPage with the frame's paddr, the size and level 1, 2 or 3; unmap
\* returns (paddr, size) and clears the entry: walk reports NotMapped, a
\* second unmap returns NotMapped and every page-table entry is as it was
\* before the map.
MapWalkUnmapRoundTrip ==
    \A v \in Vaddrs, f \in FrameSlots, user \in BOOLEAN :
        LET root  == slot[VSpaceSlot].paddr
            cap   == slot[f]
            size  == frame_size(cap)
            level == LevelOf(size)
            mp    == map_frame(pt, root, v, cap, user)
            um    == unmap(mp.pt, root, v)
        IN (/\ walk(pt, root, v) = [kind |-> "NotMapped", level |-> level]
            /\ is_aligned(size, v)
            /\ is_aligned(size, cap.paddr))
           => /\ mp.result = "Ok"
              /\ walk(mp.pt, root, v) =
                    [kind |-> "MappedPage", paddr |-> cap.paddr,
                     size |-> size, level |-> level]
              /\ um.result = "Ok" /\ um.paddr = cap.paddr /\ um.size = size
              /\ walk(um.pt, root, v) = [kind |-> "NotMapped", level |-> level]
              /\ unmap(um.pt, root, v).result = "NotMapped"
              /\ \A k \in DOMAIN pt \cup DOMAIN um.pt \cup DOMAIN mp.pt :
                    /\ EntryAt(um.pt, k[1], k[2]) = EntryAt(pt, k[1], k[2])
                    /\ EntryAt(mp.pt, k[1], k[2]) # EntryAt(pt, k[1], k[2])
                          => walk(mp.pt, root, v).paddr = EntryAt(mp.pt, k[1], k[2]).addr

\* A 2 MiB page was mapped and has just been unmapped again: its tables
\* are still installed and the address is free for the next map.
MapWalkUnmapWitness ==
    /\ last.op = "unmap" /\ last.result = "Ok" /\ last.size = 21
    /\ last.paddr = slot[LargeFrame].paddr
    /\ walk(pt, slot[VSpaceSlot].paddr, last.vaddr)
          = [kind |-> "NotMapped", level |-> 2]
    /\ map_frame(pt, slot[VSpaceSlot].paddr, last.vaddr, slot[LargeFrame],
                 TRUE).result = "Ok"


FrameAsids == {1, VmAsid, 65535}

\* C39: set_mapped on a frame that is already mapped returns
\* FrameAlreadyMapped and leaves the capability unchanged; on an unmapped
\* frame it records (asid, vaddr) without changing the size, device flag,
\* cache policy or rights, and a following clear_mapped restores the
\* capability to exactly its value before set_mapped.
SetMappedRoundTrip ==
    \A f \in FrameSlots, asid \in FrameAsids, v \in Vaddrs :
        LET cap == slot[f]
            r   == set_mapped(cap, asid, v)
        IN IF is_mapped(cap)
           THEN r.result = "FrameAlreadyMapped" /\ r.cap = cap
           ELSE /\ r.result = "Ok"
                /\ mapped_asid(r.cap) = asid
                /\ mapped_vaddr(r.cap) = v
                /\ frame_size(r.cap) = frame_size(cap)
                /\ (r.cap.arg1 % Pow2(6)) = (cap.arg1 % Pow2(6))
                /\ frame_is_device(r.cap) = frame_is_device(cap)
                /\ cache_policy(r.cap) = cache_policy(cap)
                /\ r.cap.rights = cap.rights
                /\ r.cap.paddr = cap.paddr
                /\ r.cap.cap_type = cap.cap_type
                /\ clear_mapped(r.cap) = cap

\* The 2 MiB frame has just been recorded as mapped, and a second
\* set_mapped on it is refused.
SetMappedWitness ==
    /\ last.op = "set_mapped" /\ last.result = "Ok"
    /\ last.frame = LargeFrame
    /\ mapped_vaddr(slot[LargeFrame]) = last.vaddr
    /\ mapped_asid(slot[LargeFrame]) = VmAsid
    /\ set_mapped(slot[LargeFrame], VmAsid, last.vaddr).result
          = "FrameAlreadyMapped"

\* ======================================================================
\* CSpace lookup (cspace.rs).  Here a slot is named by the address of its
\* CNodeEntry; an address absent from slot is a zeroed (null) entry.

WORD_RADIX == 6

\* x >> n and x & mask!(n) on values below 2^31.
Shr(x, n) == IF n >= 31 THEN 0 ELSE x \div Pow2(n)
LowBits(x, n) == IF n >= 31 THEN x ELSE x % Pow2(n)

\* CNodeEntry::get
SlotAt(ss, addr) == IF addr \in DOMAIN ss THEN ss[addr] ELSE NullCap

\* CNodeCap::as_object().get(index): the address of entry index, or NoPtr.
cnode_get(cap, index) ==
    IF index < Pow2(cnode_radix_bits(cap))
    THEN cap.paddr + index * Pow2(CNODE_ENTRY_BIT_SZ) ELSE NoPtr

\* CSpace::resolve_internal from the entry at address current.
RECURSIVE resolve_internal(_, _, _, _)
resolve_internal(ss, current, cptr, n_bits) ==
    LET cap        == SlotAt(ss, current)
        radix_bits == cnode_radix_bits(cap)
        guard_bits == cnode_guard_bits(cap)
        level_bits == radix_bits + guard_bits
        shift      == (n_bits - guard_bits) % Pow2(WORD_RADIX)
        guard      == IF guard_bits = 0 THEN 0
                      ELSE LowBits(Shr(cptr, shift), guard_bits)
        index      == IF radix_bits = 0 THEN 0
                      ELSE LowBits(Shr(cptr, n_bits - level_bits), radix_bits)
        entry      == cnode_get(cap, index)
        Err(e)     == [result |-> e, slot |-> NoPtr, bits_remaining |-> 0]
    IN IF cap.cap_type # "CNode" THEN Err("CSpaceNotFound")
       ELSE IF debug_assertions /\ level_bits = 0 THEN Err("Panic")
       ELSE IF guard_bits > n_bits \/ guard # cnode_guard(cap)
       THEN Err("LookupError")
       ELSE IF level_bits > n_bits THEN Err("LookupError")
       ELSE IF entry = NoPtr THEN Err("SlotEmpty")
       ELSE IF n_bits = level_bits
       THEN [result |-> "Ok", slot |-> entry, bits_remaining |-> 0]
       ELSE IF SlotAt(ss, entry).cap_type # "CNode"
       THEN [result |-> "Ok", slot |-> entry,
             bits_remaining |-> n_bits - level_bits]
       ELSE resolve_internal(ss, entry, cptr, n_bits - level_bits)

\* CSpace::resolve
resolve(ss, root, cptr, n_bits) == resolve_internal(ss, root, cptr, n_bits)

\* A lookup_with_depth that hands out the slot whatever bits_remaining is.
lookup_with_depth_any_remaining(ss, root, cptr, depth) ==
    LET res == resolve(ss, root, cptr, depth)
    IN IF depth < 1 \/ depth > CNODE_DEPTH
       THEN [result |-> "InvalidValue", slot |-> NoPtr]
       ELSE IF res.result # "Ok" THEN [result |-> res.result, slot |-> NoPtr]
       ELSE [result |-> "Ok", slot |-> res.slot]

\* CSpace::lookup_with_depth
lookup_with_depth(ss, root, cptr, depth) ==
    LET res == resolve(ss, root, cptr, depth)
    IN IF depth < 1 \/ depth > CNODE_DEPTH
       THEN [result |-> "InvalidValue", slot |-> NoPtr]
       ELSE IF res.result # "Ok" THEN [result |-> res.result, slot |-> NoPtr]
       ELSE IF res.bits_remaining # 0
       THEN [result |-> "LookupError", slot |-> NoPtr]
       ELSE [result |-> "Ok", slot |-> res.slot]

\* CSpace::lookup
lookup(ss, root, cptr) == lookup_with_depth(ss, root, cptr, CNODE_DEPTH)

\* EndpointCap::mint: arg1 = badge cut to 28 bits.
EndpointMint(paddr, badge, rights) ==
    [default_with_type("Endpoint") EXCEPT
        !.paddr = paddr, !.arg1 = badge % Pow2(28), !.rights = rights]

\* The CSpace: the thread's cspace_root entry, a root CNode of radix 4 and
\* no guard, and in its slot 5 a child CNode of radix 8 with the 4-bit guard
\* 0b1010.  Root slot 3 holds an endpoint.  Slot 0x17 of the child is empty
\* or holds an endpoint.
RootEntry == 2048
RootNode == 65536
ChildNode == 131072
ChildGuard == 10
EntryOf(node, index) == node + index * Pow2(CNODE_ENTRY_BIT_SZ)

LeafKinds == {"NullObj", "Endpoint"}

CSpaceWith(kind) ==
    LET base == (RootEntry :> CNodeMint(RootNode, 4, 0, 0, RightsCONTROL).cap)
                @@ (EntryOf(RootNode, 5) :>
                       CNodeMint(ChildNode, 8, 4, ChildGuard, RightsCONTROL).cap)
                @@ (EntryOf(RootNode, 3) :> EndpointMint(4096, 7, RightsREAD + RightsWRITE))
        leaf == EntryOf(ChildNode, 23)
    IN IF kind = "Endpoint"
       THEN base @@ (leaf :> EndpointMint(8192, 66, RightsREAD + RightsWRITE))
       ELSE base

LookupInit ==
    /\ \E kind \in LeafKinds : slot = CSpaceWith(kind)
    /\ pt = <<>>
    /\ tcb = <<>> /\ ep = <<>> /\ scheduler_set = FALSE /\ ready = <<>>

\* cptr = root index, guard, child index and 16 low bits.
Cptr(root_index, guard, index, low) ==
    root_index * Pow2(28) + guard * Pow2(24) + index * Pow2(16) + low

Cptrs ==
    { Cptr(r, g, 23, l) : r \in {3, 5}, g \in {10, 11}, l \in {0, 1} }
    \cup {3, 5, 23063, 23319}

Depths == {0, 4, 16, 32, 33}

LookupStep ==
    /\ ~panicked
    /\ UNCHANGED <<ipcVars, capVars, executor, once, resolving, debug_assertions, ops>>

call_lookup_with_depth(cptr, depth) ==
    LET r == lookup_with_depth(slot, RootEntry, cptr, depth)
    IN /\ LookupStep
       /\ panicked' = (r.result = "Panic")
       /\ last' = [op |-> "lookup_with_depth", cptr |-> cptr, depth |-> depth,
                   result |-> r.result, slot |-> r.slot]

call_lookup(cptr) ==
    LET r == lookup(slot, RootEntry, cptr)
    IN /\ LookupStep
       /\ panicked' = (r.result = "Panic")
       /\ last' = [op |-> "lookup", cptr |-> cptr, depth |-> CNODE_DEPTH,
                   result |-> r.result, slot |-> r.slot]

call_resolve(cptr, n_bits) ==
    LET r == resolve(slot, RootEntry, cptr, n_bits)
    IN /\ LookupStep
       /\ panicked' = (r.result = "Panic")
       /\ last' = [op |-> "resolve", cptr |-> cptr, depth |-> n_bits,
                   result |-> r.result, slot |-> r.slot,
                   bits_remaining |-> r.bits_remaining]

InitLookup == BuildInit /\ LookupInit

NextLookup ==
    \/ \E c \in Cptrs, d \in Depths : call_lookup_with_depth(c, d)
    \/ \E c \in Cptrs : call_lookup(c)
    \/ \E c \in Cptrs, d \in Depths \ {0, 33} : call_resolve(c, d)

SpecLookup == InitLookup /\ [][NextLookup]_vars

\* C8: with a root CNode of radix 4 without guard whose slot 5 holds a child
\* CNode of radix 8 with the 4-bit guard 0b1010, a lookup of depth 32 of
\* (0x5 << 28) | (0xA << 24) | (0x17 << 16) succeeds with slot 0x17 of the
\* child, and the same lookup with guard bits 0b1011 returns LookupError.
GuardedLookupExample ==
    /\ (/\ last.op \in {"lookup", "lookup_with_depth"}
        /\ last.depth = 32
        /\ last.cptr = Cptr(5, ChildGuard, 23, 0))
       => (last.result = "Ok" /\ last.slot = EntryOf(ChildNode, 23))
    /\ (/\ last.op \in {"lookup", "lookup_with_depth"}
        /\ last.depth = 32
        /\ last.cptr = Cptr(5, 11, 23, 0))
       => last.result = "LookupError"


\* ----------------------------------------------------------------------
\* The CSpace above with other stored guard values: the root CNode
\* (guard_bits = 0) stores root_guard and the child (guard_bits = 4) stores
\* child_guard, as CNodeCap::mint(addr, radix, guard_bits, guard, rights)
\* creates them.
CSpaceGuards(root_guard, child_guard) ==
    (RootEntry :> CNodeMint(RootNode, 4, 0, root_guard, RightsCONTROL).cap)
    @@ (EntryOf(RootNode, 5) :>
           CNodeMint(ChildNode, 8, 4, child_guard, RightsCONTROL).cap)
    @@ (EntryOf(RootNode, 3) :> EndpointMint(4096, 7, RightsREAD + RightsWRITE))

\* Stored guards: the exact 4-bit guard, and one with a bit above bit 3.
StoredGuards == {0, 1, ChildGuard, ChildGuard + 16}

GuardsInit ==
    /\ \E rg \in {0, 1}, cg \in StoredGuards : slot = CSpaceGuards(rg, cg)
    /\ pt = <<>>
    /\ tcb = <<>> /\ ep = <<>> /\ scheduler_set = FALSE /\ ready = <<>>

InitGuards == BuildInit /\ GuardsInit

SpecGuards == InitGuards /\ [][NextLookup]_vars

\* C29: at each lookup level the guard check passes iff the top guard_bits
\* of the remaining window of the pointer equal the CNode's stored guard
\* masked to guard_bits (so guard_bits = 0 always passes and stored guard
\* bits above guard_bits are ignored).  Checked on the root and on the child
\* CNode with a window of exactly their level bits, where the guard check
\* is the only one that can fail.
GuardCheckMasksStoredGuard ==
    \A e \in {RootEntry, EntryOf(RootNode, 5)}, cptr \in Cptrs :
        LET cap        == SlotAt(slot, e)
            guard_bits == cnode_guard_bits(cap)
            n_bits     == cnode_radix_bits(cap) + guard_bits
            window_top == LowBits(Shr(cptr, n_bits - guard_bits), guard_bits)
            passes     == window_top = LowBits(cnode_guard(cap), guard_bits)
        IN resolve_internal(slot, e, cptr, n_bits).result
              = IF passes THEN "Ok" ELSE "LookupError"


\* ----------------------------------------------------------------------
\* The bits a walk from the cspace root has consumed when it stands on the
\* slot at addr: the level bits of every CNode on the way down to it.
ContainerOf(ss, addr) ==
    CHOOSE e \in DOMAIN ss :
        /\ ss[e].cap_type = "CNode"
        /\ \E i \in 0..(Pow2(cnode_radix_bits(ss[e])) - 1) :
               addr = EntryOf(ss[e].paddr, i)

RECURSIVE BitsTo(_, _)
BitsTo(ss, addr) ==
    IF addr = RootEntry THEN 0
    ELSE LET e == ContainerOf(ss, addr)
         IN BitsTo(ss, e) + cnode_radix_bits(ss[e]) + cnode_guard_bits(ss[e])

\* C30: resolve(cptr, n) returns the reached slot with bits_remaining > 0
\* when the walk reaches a non-CNode slot before n bits are consumed, and
\* bits_remaining = 0 only when exactly n bits were consumed; lookup and
\* lookup_with_depth return a slot only in the second case and turn every
\* result with bits_remaining > 0 into LookupError.
ResolveReportsRemainingBits ==
    LET root_bits == cnode_radix_bits(SlotAt(slot, RootEntry))
    IN
    /\ last.op = "resolve" /\ last.result = "Ok"
       => /\ BitsTo(slot, last.slot) + last.bits_remaining = last.depth
          /\ last.bits_remaining > 0
                => SlotAt(slot, last.slot).cap_type # "CNode"
    /\ last.op = "resolve" /\ last.depth > root_bits
       => LET e == EntryOf(RootNode,
                       LowBits(Shr(last.cptr, last.depth - root_bits), root_bits))
          IN SlotAt(slot, e).cap_type # "CNode"
                => /\ last.result = "Ok" /\ last.slot = e
                   /\ last.bits_remaining = last.depth - root_bits
    /\ last.op \in {"lookup", "lookup_with_depth"}
          /\ last.depth >= 1 /\ last.depth <= CNODE_DEPTH
       => LET r == resolve(slot, RootEntry, last.cptr, last.depth)
          IN /\ last.result = "Ok"
                  <=> (r.result = "Ok" /\ r.bits_remaining = 0)
             /\ last.result = "Ok"
                  => /\ last.slot = r.slot
                     /\ BitsTo(slot, last.slot) = last.depth
             /\ r.result = "Ok" /\ r.bits_remaining > 0
                  => last.result = "LookupError"

\* A lookup to depth 32 whose walk stopped on a non-CNode slot with bits left.
ResolveReportsRemainingWitness ==
    /\ last.op = "lookup_with_depth" /\ last.depth = CNODE_DEPTH
    /\ last.result = "LookupError"
    /\ LET r == resolve(slot, RootEntry, last.cptr, last.depth)
       IN /\ r.result = "Ok" /\ r.bits_remaining > 0
          /\ BitsTo(slot, r.slot) + r.bits_remaining = CNODE_DEPTH


\* ----------------------------------------------------------------------
\* resolve_internal, one pass of its loop at a time.
\* resolve_pass: the outcome of one pass over the CNode in slot current with
\* n_bits left: a return (Ok or an error), a panic or a descent.
resolve_pass(ss, current, cptr, n_bits) ==
    LET cap        == SlotAt(ss, current)
        radix_bits == cnode_radix_bits(cap)
        guard_bits == cnode_guard_bits(cap)
        level_bits == radix_bits + guard_bits
        shift      == (n_bits - guard_bits) % Pow2(WORD_RADIX)
        guard      == IF guard_bits = 0 THEN 0
                      ELSE LowBits(Shr(cptr, shift), guard_bits)
        index      == IF radix_bits = 0 THEN 0
                      ELSE LowBits(Shr(cptr, n_bits - level_bits), radix_bits)
        entry      == cnode_get(cap, index)
        Return(r, e, b) == [pc |-> "returned", result |-> r, slot |-> e,
                            bits_remaining |-> b]
    IN IF cap.cap_type # "CNode" THEN Return("CSpaceNotFound", NoPtr, 0)
       ELSE IF debug_assertions /\ level_bits = 0 THEN Return("Panic", NoPtr, 0)
       ELSE IF guard_bits > n_bits \/ guard # cnode_guard(cap)
       THEN Return("LookupError", NoPtr, 0)
       ELSE IF level_bits > n_bits THEN Return("LookupError", NoPtr, 0)
       ELSE IF entry = NoPtr THEN Return("SlotEmpty", NoPtr, 0)
       ELSE IF n_bits = level_bits THEN Return("Ok", entry, 0)
       ELSE IF SlotAt(ss, entry).cap_type # "CNode"
       THEN Return("Ok", entry, n_bits - level_bits)
       ELSE [pc |-> "loop", current |-> entry, n_bits |-> n_bits - level_bits]

\* Passes of the loop followed per call.
MaxLevels == 34

\* CNodes of user_bits = slot_bit_width as retype mints them (one slot, no
\* index or guard bits).
NodeA == 196608
NodeB == 262144
ZeroLevelCNode(addr) == MintObject("CNode", CNODE_ENTRY_BIT_SZ, addr, FALSE).cap

\* The CSpaces walked: the guarded two-level CSpace above; a zero-level root
\* CNode whose slot 0 is empty, holds a capability to the CNode itself, or
\* holds a capability to a second zero-level CNode that points back.
WalkCSpaces ==
    { CSpaceWith("Endpoint"),
      (RootEntry :> ZeroLevelCNode(NodeA)),
      (RootEntry :> ZeroLevelCNode(NodeA))
         @@ (EntryOf(NodeA, 0) :> ZeroLevelCNode(NodeA)),
      (RootEntry :> ZeroLevelCNode(NodeA))
         @@ (EntryOf(NodeA, 0) :> ZeroLevelCNode(NodeB))
         @@ (EntryOf(NodeB, 0) :> ZeroLevelCNode(NodeA)) }

WalkInit ==
    /\ slot \in WalkCSpaces
    /\ pt = <<>>
    /\ tcb = <<>> /\ ep = <<>> /\ scheduler_set = FALSE /\ ready = <<>>

InitWalk == BuildInit /\ WalkInit

WalkStep ==
    /\ ~panicked
    /\ UNCHANGED <<ipcVars, capVars, executor, once, debug_assertions, ops>>

\* resolve(cptr, n_bits) is entered: current = self.root.
resolve_enter(cptr, n_bits) ==
    /\ WalkStep
    /\ resolving.pc # "loop"
    /\ resolving' = [pc |-> "loop", cptr |-> cptr, depth |-> n_bits,
                current |-> RootEntry, n_bits |-> n_bits, levels |-> 0]
    /\ last' = [op |-> "resolve_enter", cptr |-> cptr, depth |-> n_bits]
    /\ UNCHANGED panicked

\* One pass of the loop: it returns, panics or descends one CNode level.
resolve_loop ==
    /\ WalkStep
    /\ resolving.pc = "loop"
    /\ resolving.levels < MaxLevels
    /\ LET r == resolving
           p == resolve_pass(slot, r.current, r.cptr, r.n_bits)
       IN /\ resolving' =
                IF p.pc = "loop"
                THEN [r EXCEPT !.current = p.current, !.n_bits = p.n_bits,
                               !.levels = r.levels + 1]
                ELSE [pc |-> "returned", cptr |-> r.cptr, depth |-> r.depth,
                      levels |-> r.levels, result |-> p.result,
                      slot |-> p.slot, bits_remaining |-> p.bits_remaining]
          /\ panicked' = (p.pc = "returned" /\ p.result = "Panic")
          /\ last' = [op |-> "resolve_loop", cptr |-> r.cptr, depth |-> r.depth]

NextWalk ==
    \/ \E c \in Cptrs, d \in Depths \ {0, 33} : resolve_enter(c, d)
    \/ resolve_loop

SpecWalk == InitWalk /\ [][NextWalk]_vars

\* C34: resolve terminates for every CSpace contents and every pointer,
\* descending through at most 32 CNode levels; in particular when a CNode
\* capability has guard_bits + radix_bits = 0 and its slot 0 holds a CNode
\* capability of the same kind, possibly to itself.
ResolveDescendsAtMost32Levels ==
    resolving.pc # "idle" => resolving.levels <= CNODE_DEPTH

\* ======================================================================
\* The per-core executor (scheduler/executor.rs).  task_queue is the
\* BinaryHeap<DeadlineEntry, Min>, kept as the sequence of its entries in
\* increasing order; polls is the stack of calls in progress: a "run" frame
\* is a run_ready_tasks loop between two iterations, a "poll" frame a task
\* future being polled by handle_waker_task.

MAX_TCB_PER_CORE == 64

MaxTasks == 3
MaxSchedOps == 7
Deadlines == {50, 100}

\* #[derive(PartialOrd, Ord)] of DeadlineEntry: deadline, then task_id.
EntryLess(a, b) ==
    \/ a.deadline < b.deadline
    \/ a.deadline = b.deadline /\ a.task_id < b.task_id

\* BinaryHeap::push: Err when the heap is full.
heap_push(q, e) ==
    IF Len(q) >= MAX_TCB_PER_CORE THEN [ok |-> FALSE, q |-> q]
    ELSE LET before == SelectSeq(q, LAMBDA x : ~EntryLess(e, x))
             after  == SelectSeq(q, LAMBDA x : EntryLess(e, x))
         IN [ok |-> TRUE, q |-> before \o <<e>> \o after]

\* BinaryHeap::peek / BinaryHeap::pop
heap_peek(q) == IF q = <<>> THEN NoEntry ELSE Head(q)
heap_pop(q) ==
    IF q = <<>> THEN [entry |-> NoEntry, q |-> q]
    ELSE [entry |-> Head(q), q |-> Tail(q)]

HasWaker(ex, task_id) == \E w \in ex.wakers : w.task_id = task_id

\* Executor::handle_waker_task up to the call of poll: nothing for an entry
\* whose task is gone, else the waker is created on first use and the
\* task's future is polled.
handle_waker_task(ex, entry) ==
    IF entry.task_id \notin ex.tasks THEN ex
    ELSE [ex EXCEPT
            !.wakers = IF HasWaker(ex, entry.task_id) THEN @
                       ELSE @ \cup {[task_id |-> entry.task_id,
                                     deadline |-> entry.deadline]},
            !.polls = Append(@, [kind |-> "poll", entry |-> entry])]

\* Executor::spawn of Task::new(tcb, future), deadline read from the tcb.
spawn(ex, deadline) ==
    LET task_id == ex.next_id
        p       == heap_push(ex.task_queue,
                             [deadline |-> deadline, task_id |-> task_id])
    IN [result |-> IF task_id \in ex.tasks THEN "Panic"
                   ELSE IF p.ok THEN "Ok" ELSE "Err",
        executor |-> [ex EXCEPT !.next_id = @ + 1,
                                !.tasks = @ \cup {task_id},
                                !.task_queue = p.q]]

\* One iteration of the loop of Executor::run_ready_tasks.
run_ready_tasks(ex) ==
    LET p == heap_pop(ex.task_queue)
    IN IF p.entry = NoEntry
       THEN [ex EXCEPT !.polls = SubSeq(@, 1, Len(@) - 1)]
       ELSE handle_waker_task(
                [ex EXCEPT !.task_queue = p.q, !.current_task = p.entry],
                p.entry)

\* A faulty variant of Executor::preempt that also switches to a task whose
\* deadline equals the current one; PreemptSwitchesOnEarlierDeadline tells
\* the two apart.
preempt_on_equal_deadline(ex) ==
    LET next_entry   == heap_peek(ex.task_queue)
        current_task == ex.current_task
    IN IF current_task = NoEntry
       THEN [ex EXCEPT !.polls = Append(@, [kind |-> "run"])]
       ELSE IF next_entry = NoEntry THEN ex
       ELSE IF next_entry.deadline <= current_task.deadline
       THEN handle_waker_task(
                [ex EXCEPT
                    !.task_queue = heap_push(heap_pop(@).q, current_task).q,
                    !.current_task = next_entry],
                next_entry)
       ELSE ex

\* Executor::preempt, up to the poll of the task switched to (or to the
\* first iteration of run_ready_tasks when there is no current task).
preempt(ex) ==
    LET next_entry   == heap_peek(ex.task_queue)
        current_task == ex.current_task
    IN IF current_task = NoEntry
       THEN [ex EXCEPT !.polls = Append(@, [kind |-> "run"])]
       ELSE IF next_entry = NoEntry THEN ex
       ELSE IF next_entry.deadline < current_task.deadline
       THEN handle_waker_task(
                [ex EXCEPT
                    !.task_queue = heap_push(heap_pop(@).q, current_task).q,
                    !.current_task = next_entry],
                next_entry)
       ELSE ex

\* Poll::Ready(()) in handle_waker_task: the task is removed.
poll_ready(ex) ==
    LET entry == ex.polls[Len(ex.polls)].entry
    IN [ex EXCEPT !.tasks = @ \ {entry.task_id},
                  !.current_task = NoEntry,
                  !.polls = SubSeq(@, 1, Len(@) - 1)]

\* TaskWaker::wake_task: pushes the waker's entry, whatever the heap holds.
wake_task(ex, w) ==
    [ex EXCEPT !.task_queue =
        heap_push(@, [deadline |-> w.deadline, task_id |-> w.task_id]).q]

SchedStep ==
    /\ ~panicked
    /\ Step(MaxSchedOps)
    /\ UNCHANGED <<ipcVars, capVars, once, resolving, debug_assertions>>

TopPoll(ex) == ex.polls # <<>> /\ ex.polls[Len(ex.polls)].kind = "poll"
TopRun(ex) == ex.polls # <<>> /\ ex.polls[Len(ex.polls)].kind = "run"

\* A behaviour starts with NEXT_ID = 0 or MAX_TCB_PER_CORE and creates at
\* most MaxTasks tasks.
call_spawn(deadline) ==
    LET r == spawn(executor, deadline)
    IN /\ SchedStep
       /\ executor.next_id % MAX_TCB_PER_CORE < MaxTasks
       /\ executor' = r.executor
       /\ panicked' = (r.result = "Panic")
       /\ last' = [op |-> "spawn", task_id |-> executor.next_id,
                   deadline |-> deadline, result |-> r.result]

\* Executor::run entering run_ready_tasks, no call being in progress.
call_run ==
    /\ SchedStep
    /\ executor.polls = <<>>
    /\ executor' = [executor EXCEPT !.polls = <<[kind |-> "run"]>>]
    /\ last' = [op |-> "run"]
    /\ UNCHANGED panicked

call_run_ready_tasks ==
    /\ SchedStep
    /\ TopRun(executor)
    /\ executor' = run_ready_tasks(executor)
    /\ last' = [op |-> "run_ready_tasks",
                entry |-> heap_peek(executor.task_queue)]
    /\ UNCHANGED panicked

\* The future polled last returns Poll::Ready(()).
call_poll_ready ==
    /\ SchedStep
    /\ TopPoll(executor)
    /\ executor' = poll_ready(executor)
    /\ last' = [op |-> "poll_ready",
                entry |-> executor.polls[Len(executor.polls)].entry]
    /\ UNCHANGED panicked

\* The future polled last returns Poll::Pending: unimplemented!().
call_poll_pending ==
    /\ SchedStep
    /\ TopPoll(executor)
    /\ panicked' = TRUE
    /\ last' = [op |-> "poll_pending",
                entry |-> executor.polls[Len(executor.polls)].entry]
    /\ UNCHANGED executor

\* A waker handed out by a poll is invoked (Wake::wake / wake_by_ref).
call_wake_task(w) ==
    /\ SchedStep
    /\ w \in executor.wakers
    /\ executor' = wake_task(executor, w)
    /\ last' = [op |-> "wake_task", task_id |-> w.task_id]
    /\ UNCHANGED panicked

\* The tick calls Executor::preempt.
call_preempt ==
    /\ SchedStep
    /\ executor' = preempt(executor)
    /\ last' = [op |-> "preempt", current |-> executor.current_task,
                next |-> heap_peek(executor.task_queue)]
    /\ UNCHANGED panicked

Wakers == [task_id : 0..(MaxTasks - 1), deadline : Deadlines]

NextSched ==
    \/ \E d \in Deadlines : call_spawn(d)
    \/ call_run
    \/ call_run_ready_tasks
    \/ call_poll_ready
    \/ call_poll_pending
    \/ \E w \in Wakers : call_wake_task(w)
    \/ call_preempt

SpecSched == Init /\ [][NextSched]_vars

\* The executor after MAX_TCB_PER_CORE tasks of deadline 100 were spawned on
\* it: tasks 0..63 registered and queued in the order of their ids.
FullExecutor ==
    [NewExecutor EXCEPT
        !.tasks = 0..(MAX_TCB_PER_CORE - 1),
        !.task_queue = [i \in 1..MAX_TCB_PER_CORE |->
                          [deadline |-> 100, task_id |-> i - 1]],
        !.next_id = MAX_TCB_PER_CORE]

\* A core whose ready heap holds MAX_TCB_PER_CORE entries.
InitSchedFull ==
    /\ IpcInit
    /\ NoCaps
    /\ executor = FullExecutor
    /\ once = NewOnceLock
    /\ resolving = NoWalk
    /\ debug_assertions \in BOOLEAN
    /\ panicked = FALSE
    /\ last = NoOp
    /\ ops = 0

SpecSchedFull == InitSchedFull /\ [][NextSched]_vars

\* Number of occurrences of entry x in heap q.
Count(q, x) == Cardinality({i \in DOMAIN q : q[i] = x})

ReadyHeapHoldsTaskOnce ==
    LET q == executor.task_queue
    IN /\ \A i, j \in DOMAIN q : q[i].task_id = q[j].task_id => i = j
       /\ \A i \in DOMAIN q : q[i].task_id # executor.current_task.task_id

\* C22: adding a task when the ready heap already holds its bound of 64
\* entries fails with an error and leaves the scheduler exactly as before
\* the call: the heap is unchanged and the rejected task is not registered
\* in the task table.
SpawnOnFullHeapIsRejected ==
    [][\A d \in Deadlines :
         (/\ Len(executor.task_queue) = MAX_TCB_PER_CORE
          /\ call_spawn(d))
         => /\ last'.result = "Err"
            /\ executor'.task_queue = executor.task_queue
            /\ executor'.current_task = executor.current_task
            /\ executor'.tasks = executor.tasks
      ]_vars

\* ======================================================================
\* OnceLock (scheduler/sync.rs): concurrent set, get_or_init and get on one
\* cell.  Every atomic access of `once` and every access of `value` is one
\* step of the caller that performs it.
MaxOnceOps == 9

\* A faulty compare_exchange that stores the new value whatever the current
\* one is; OnceLockWrittenOnce tells the two apart.
compare_exchange_blind(current, expected, new) ==
    [ok |-> TRUE, state |-> new]

\* AtomicU8::compare_exchange(expected, new, AcqRel, Acquire)
compare_exchange(current, expected, new) ==
    [ok |-> current = expected,
     state |-> IF current = expected THEN new ELSE current]

\* The value a caller passes to set, and the one its initializer returns.
SetValue(c) == 10 + c
InitValue(c) == 20 + c

OnceStep ==
    /\ ~panicked
    /\ Step(MaxOnceOps)
    /\ UNCHANGED <<ipcVars, capVars, executor, resolving, debug_assertions, panicked>>

At(c, pc) == once.calls[c].pc = pc
Goto(o, c, pc) == [o EXCEPT !.calls[c].pc = pc]

\* return unsafe { (*self.value.get()).as_ref().unwrap() }
ReturnValue(o, c) ==
    [o EXCEPT !.calls[c] = IdleCall, !.returned = @ \cup {o.value}]

\* get_or_init, the fast path: load(Acquire) == INITIALIZED.
get_or_init_fast(o, c) ==
    IF o.once = INITIALIZED THEN ReturnValue(o, c) ELSE Goto(o, c, "goi_cas")

\* OnceLock::set(value), up to the outcome of its compare_exchange.
call_set(c) ==
    /\ OnceStep
    /\ At(c, "idle")
    /\ LET x == compare_exchange(once.once, UNINITIALIZED, INITIALIZING)
       IN IF x.ok
          THEN /\ once' = [once EXCEPT
                             !.once = x.state,
                             !.calls[c] = [pc |-> "set_write", value |-> SetValue(c)]]
               /\ last' = [op |-> "set_cas", caller |-> c]
          ELSE /\ once' = once
               /\ last' = [op |-> "set", caller |-> c, result |-> "Err"]

\* set: *self.value.get() = Some(value)
set_write(c) ==
    /\ OnceStep
    /\ At(c, "set_write")
    /\ once' = [Goto(once, c, "set_store") EXCEPT
                  !.value = once.calls[c].value, !.writes = @ + 1]
    /\ last' = [op |-> "set_write", caller |-> c]

\* set: guard.active = false; once.store(INITIALIZED); Ok(())
set_store(c) ==
    /\ OnceStep
    /\ At(c, "set_store")
    /\ once' = [once EXCEPT !.once = INITIALIZED, !.calls[c] = IdleCall,
                            !.set_oks = @ + 1]
    /\ last' = [op |-> "set", caller |-> c, result |-> "Ok"]

\* OnceLock::get_or_init(f), up to the outcome of the fast path.
call_get_or_init(c) ==
    /\ OnceStep
    /\ At(c, "idle")
    /\ once' = get_or_init_fast([once EXCEPT !.calls[c].value = InitValue(c)], c)
    /\ last' = [op |-> "get_or_init", caller |-> c, seen |-> once.once]

\* get_or_init: the compare_exchange.
get_or_init_cas(c) ==
    /\ OnceStep
    /\ At(c, "goi_cas")
    /\ LET x == compare_exchange(once.once, UNINITIALIZED, INITIALIZING)
       IN once' = [Goto(once, c, IF x.ok THEN "goi_closure" ELSE "goi_wait")
                     EXCEPT !.once = x.state]
    /\ last' = [op |-> "get_or_init_cas", caller |-> c]

\* get_or_init: let value = f()
get_or_init_closure(c) ==
    /\ OnceStep
    /\ At(c, "goi_closure")
    /\ once' = [Goto(once, c, "goi_write") EXCEPT !.closures = @ + 1]
    /\ last' = [op |-> "get_or_init_closure", caller |-> c]

\* get_or_init: *self.value.get() = Some(value)
get_or_init_write(c) ==
    /\ OnceStep
    /\ At(c, "goi_write")
    /\ once' = [Goto(once, c, "goi_store") EXCEPT
                  !.value = once.calls[c].value, !.writes = @ + 1]
    /\ last' = [op |-> "get_or_init_write", caller |-> c]

\* get_or_init: once.store(INITIALIZED) and the return of the stored value.
get_or_init_store(c) ==
    /\ OnceStep
    /\ At(c, "goi_store")
    /\ once' = ReturnValue([once EXCEPT !.once = INITIALIZED], c)
    /\ last' = [op |-> "get_or_init_store", caller |-> c]

\* get_or_init: the cooperative wait ends when once is not INITIALIZING.
get_or_init_wait(c) ==
    /\ OnceStep
    /\ At(c, "goi_wait")
    /\ once.once # INITIALIZING
    /\ once' = Goto(once, c, "goi_check")
    /\ last' = [op |-> "get_or_init_wait", caller |-> c]

\* get_or_init after the wait: return the value or start again.
get_or_init_check(c) ==
    /\ OnceStep
    /\ At(c, "goi_check")
    /\ once' = IF once.once = INITIALIZED THEN ReturnValue(once, c)
               ELSE get_or_init_fast(once, c)
    /\ last' = [op |-> "get_or_init_waited", caller |-> c]

\* OnceLock::get
call_get(c) ==
    /\ OnceStep
    /\ At(c, "idle")
    /\ once' = IF once.once = INITIALIZED
               THEN [once EXCEPT !.returned = @ \cup {once.value}]
               ELSE once
    /\ last' = [op |-> "get", caller |-> c, seen |-> once.once,
                result |-> IF once.once = INITIALIZED THEN once.value
                           ELSE NoValue]

NextOnce ==
    \/ \E c \in Callers : call_set(c)
    \/ \E c \in Callers : set_write(c)
    \/ \E c \in Callers : set_store(c)
    \/ \E c \in Callers : call_get_or_init(c)
    \/ \E c \in Callers : get_or_init_cas(c)
    \/ \E c \in Callers : get_or_init_closure(c)
    \/ \E c \in Callers : get_or_init_write(c)
    \/ \E c \in Callers : get_or_init_store(c)
    \/ \E c \in Callers : get_or_init_wait(c)
    \/ \E c \in Callers : get_or_init_check(c)
    \/ \E c \in Callers : call_get(c)

SpecOnce == Init /\ [][NextOnce]_vars

\* C23: for any interleaving of concurrent set, get_or_init and get calls
\* on one OnceLock (no initializer panics) the cell is written exactly
\* once: at most one set returns Ok, at most one initializer closure is
\* executed, every get or get_or_init that returns a value returns the same
\* value, and get returns None, in one step, while the cell is
\* uninitialized or being initialized.
OnceLockWrittenOnce ==
    /\ once.writes <= 1
    /\ once.once = INITIALIZED => once.writes = 1
    /\ once.set_oks <= 1
    /\ once.closures <= 1
    /\ once.set_oks + once.closures <= 1
    /\ once.returned \subseteq {once.value}
    /\ NoValue \notin once.returned
    /\ last.op = "get" => (last.result = NoValue <=> last.seen # INITIALIZED)

\* A get_or_init lost the compare_exchange to another caller's get_or_init,
\* waited for it and has just returned the value the winner's closure made.
OnceLockWitness ==
    /\ last.op = "get_or_init_waited"
    /\ once.closures = 1
    /\ once.returned = {once.value}
    /\ once.value # InitValue(last.caller)
    /\ At(last.caller, "idle")

\* ======================================================================
\* System call entry (arch/x86_64/syscall.rs, syscall.rs).
MaxSyscalls == 3

\* impl From<u64> for Syscall: value as u8, then the num_enum conversion.
SyscallOf(value) ==
    LET id == value % 256
    IN CASE id = 0 -> "AttachIrq" [] id = 1 -> "CreateTask"
         [] id = 2 -> "RemoveTask" [] id = 3 -> "TaskSleep"
         [] id = 10 -> "MapMemory" [] id = 11 -> "UnmapMemory"
         [] id = 12 -> "GrantMemory" [] id = 20 -> "Send"
         [] id = 21 -> "Receive" [] id = 22 -> "IpcCall"
         [] OTHER -> "Invalid"

\* syscall::handler(id, args)
handler(id, args) ==
    LET sc == SyscallOf(id)
    IN CASE sc = "CreateTask" ->
              IF Len(args) < 3 THEN "InvalidValue" ELSE "Ok"
         [] sc = "Invalid" -> "UnknownSyscall"
         [] OTHER -> "Panic"

\* syscall_entry(registers): calls the handler, drops its result, returns 1.
syscall_entry(registers) ==
    [handled |-> handler(registers.rax,
                         <<registers.rdi, registers.rsi, registers.rdx,
                           registers.r10, registers.r8, registers.r9>>),
     ret |-> 1,
     registers |-> registers]

\* syscall_stub: pushes the user registers as a Regs, calls syscall_entry
\* (whose result is in RAX) and pops the saved registers, RAX first.
syscall_stub(user) ==
    LET e == syscall_entry(user)
    IN [handled |-> e.handled, rax |-> e.registers.rax]

\* error.rs: the numeric codes of SysError other than None.
SysErrorCodes == 1..22

\* RAX values (system call numbers) user space passes.
SyscallNumbers == {1, 2, 4, 10, 20, 22, 255, 256, 257}
SyscallArgs == {7, 8}

call_syscall(number, arg) ==
    LET user == [rax |-> number, rdi |-> arg, rsi |-> 0, rdx |-> 0, r8 |-> 0,
                 r9 |-> 0, r10 |-> 0, r11 |-> 0, rcx |-> 0]
        r == syscall_stub(user)
    IN /\ ~panicked
       /\ Step(MaxSyscalls)
       /\ panicked' = (r.handled = "Panic")
       /\ last' = [op |-> "syscall", number |-> number, arg |-> arg,
                   handled |-> r.handled, rax |-> r.rax]
       /\ UNCHANGED <<ipcVars, capVars, executor, once, resolving, debug_assertions>>

NextSyscall == \E n \in SyscallNumbers, a \in SyscallArgs : call_syscall(n, a)

SpecSyscall == Init /\ [][NextSyscall]_vars

\* C25: the value syscall_entry returns to user space in RAX is 0 exactly
\* when the dispatched handler succeeded, and otherwise the non-zero numeric
\* SysError code of the handler's error.
SyscallReturnsStatusInRax ==
    (last.op = "syscall" /\ last.handled # "Panic")
    => /\ last.rax = 0 <=> last.handled = "Ok"
       /\ last.handled # "Ok" => last.rax \in SysErrorCodes

\* The discriminants of enum Syscall other than the catch-all.
ValidSyscalls == {0, 1, 2, 3, 10, 11, 12, 20, 21, 22}

\* C40: for every 64-bit syscall number in RAX that is not one of
\* {0, 1, 2, 3, 10, 11, 12, 20, 21, 22} the handler reports an unknown
\* syscall and dispatches no operation; this includes numbers >= 256 whose
\* low 8 bits equal a valid syscall number.
UnknownNumbersAreRejected ==
    (last.op = "syscall" /\ last.number \notin ValidSyscalls)
    => last.handled = "UnknownSyscall"

====
